---- MODULE Spec2Model ----
(***************************************************************************)
(* The phased migration pipeline of migration/migrate.py: the orchestrator *)
(* state machine (extract -> transform -> validate -> load -> verify), the *)
(* checkpoint file and the resume protocol, over abstract per-entity       *)
(* artifacts (extracted file, transformed file, target table).             *)
(*                                                                         *)
(* One behaviour is a sequence of invocations of main(): each constructs   *)
(* an orchestrator (which loads the checkpoint file), dispatches one       *)
(* command and ends in done / failed / interrupted / crashed.  The files   *)
(* and the target tables persist from one invocation to the next.          *)
(***************************************************************************)
EXTENDS Integers, Sequences, FiniteSets, Bags, TLC

\* Bounds of the model.
MaxRows == 1        \* rows of one entity in the source database
MaxRuns == 2        \* invocations of main() in one behaviour
MaxItems == 53      \* items in one transformed file
MaxBatch == 26      \* configured migration.batchSize
MaxLoads == 2       \* runs of one loader over the same transformed file
MaxPartial == 1     \* items of a failing chunk that the store accepted before the failure
MaxParties == 2     \* buyer (producer) records in one transform input
MaxSales == 2       \* sale records in one transform input
MaxLines == 2       \* lines of one sale
MaxPasses == 2      \* transforms of the same input in one behaviour
MaxDerivations == 2 \* derivations of the amounts of one line, each fed the last output
MaxFaults == 2      \* fields of a validated item that differ from a well-formed item
MaxRecords == 2     \* records in one file handed to validate_file
MaxCalls == 2       \* calls of validate_file on one validator

\* Program constants.
DefaultBatchSize == 25      \* config['migration'].get('batchSize', 25)
DynamoBatchLimit == 25      \* chunk_size = min(batch_size, 25)

Phases == <<"extract", "transform", "validate", "load">>
FullPhases == <<"extract", "transform", "validate", "load", "verify">>
\* Faulty variant: the entity list in another order.
EntitiesSalesFirst == <<"sales", "buyers", "producers">>

Entities == <<"buyers", "producers", "sales">>

EntitySet == {Entities[i] : i \in 1..Len(Entities)}
StepPhases == {"extract", "transform", "load"}

VARIABLES
    source,           \* the source database: entity -> number of rows
    config,           \* config.json: migration.continueOnError, checkpoint.enabled
    args,             \* command line of the current invocation
    dry_run,          \* self.dry_run
    checkpoint,       \* self.checkpoint (in memory)
    checkpoint_file,  \* the persisted checkpoint: [st, data]
    completed_phases, \* resume(): list(self.checkpoint.keys())
    frame,            \* the routine main() dispatched to: run_full, resume, phase
    pc,               \* position of the process
    todo,             \* phases still to be called by the active routine
    phase,            \* phase whose run_<phase> is active
    ents,             \* entities the active phase loop still has to visit
    count,            \* value returned by the last step
    extracted,        \* data/extracted/<entity>.json: [st, n]
    transformed,      \* data/transformed/<entity>.json: [st, n]
    target,           \* target tables: entity -> set of item indices stored
    validation,       \* outcome of validate_data.validate in this invocation
    runs,             \* number of invocations so far
    trace,            \* history: phases started and steps begun in this invocation
    succeeded,        \* history: steps (phase, entity) that ever returned normally
    start,            \* history: checkpoint, file and target as the invocation found them
    atStep,           \* history: the checkpoint file when the current step began
    interruptedAt,    \* history: the position at which the interrupt arrived
    prev,             \* history: the step the previous invocation failed in, and
                      \*   the entities of that phase it had completed before
    \* one extractor (extract/extract_sales.py) over the source and its file
    extractor,        \* the source rows, the canonical file, the position of extract()
    \* one loader (load/load_*.py) over one transformed file
    all_items,        \* the items read from the transformed file, in file order
    batch_size,       \* config['migration'].get('batchSize', 25)
    offset,           \* the loop variable i of range(0, len(items), chunk_size)
    chunks,           \* history: the chunks written by the current run, in write order
    table,            \* the target table: a bag of stored items
    lpc,              \* position of the loader
    loads,            \* number of runs of the loader so far
    outcomes,         \* history: how each finished run ended
    loaded_sales,     \* load_sales.py: the sales counted so far by the current run
    \* one transformer over the records of one entity
    impl,             \* the program: migration/transform/*.py ("pipeline") or
                      \*   migrate_to_dynamodb.py ("script")
    kind,             \* the entity transformed
    records,          \* the source rows of the entity (sales carry their lines)
    out_items,        \* the items of the latest transform, in the order they are loaded
    before,           \* history: the items of the earlier transforms of the same rows
    passes,           \* number of transforms so far
    \* one status normalization
    raw_status,       \* the status token of the source record
    status,           \* the 'status' of the item made from it
    \* one sale line through the derivation of its amounts
    line,             \* the line handed to the derivation
    derived,          \* history: the outputs of the derivations so far
    \* one sale item through validate_sale
    sale,             \* the item: field -> value
    result,           \* what validate_sale did: errors, warnings, outcome
    \* one run of the validator over files of transformed items
    validator         \* the MigrationValidator: stats, errors, warnings; main()'s report

orchestratorVars ==
    <<source, config, args, dry_run, checkpoint, checkpoint_file, completed_phases, frame,
      pc, todo, phase, ents, count, extracted, transformed, target, validation,
      runs, trace, succeeded, start, atStep, interruptedAt, prev, extractor>>

loaderVars ==
    <<all_items, batch_size, offset, chunks, table, lpc, loads, outcomes, loaded_sales>>

transformVars == <<impl, kind, records, out_items, before, passes>>

\* The state of the data-level components, which the orchestrator model holds fixed.
fieldVars == <<raw_status, status, line, derived, sale, result, validator>>

dataVars == <<loaderVars, transformVars, fieldVars>>

vars == <<orchestratorVars, dataVars>>

----------------------------------------------------------------------------
\* Helpers

Min(a, b) == IF a < b THEN a ELSE b

EmptyCheckpoint == <<>>

NoFile == [st |-> "absent", n |-> 0]
DataFile(n) == [st |-> "ok", n |-> n]

AbsentCheckpointFile == [st |-> "absent", data |-> EmptyCheckpoint]
TruncatedCheckpointFile == [st |-> "corrupt", data |-> EmptyCheckpoint]
WrittenCheckpointFile(ck) == [st |-> "ok", data |-> ck]

\* The (phase, entity) entries of a checkpoint structure.
Entries(ck) == {<<p, e>> \in (DOMAIN ck) \X EntitySet : e \in DOMAIN ck[p]}

Range(s) == {s[i] : i \in 1..Len(s)}

IsPrefix(s, t) == Len(s) <= Len(t) /\ \A i \in 1..Len(s) : s[i] = t[i]

RECURSIVE SelectSeq2(_, _)
\* the subsequence of s of the elements not in the set S
SelectSeq2(s, S) ==
    IF s = <<>> THEN <<>>
    ELSE IF Head(s) \in S THEN SelectSeq2(Tail(s), S)
         ELSE <<Head(s)>> \o SelectSeq2(Tail(s), S)

----------------------------------------------------------------------------
\* Configuration and command line

\* migration.validateAfterLoad is read once, in run_full's verify phase, and is
\* drawn there.
Configs == [continueOnError : BOOLEAN, checkpointEnabled : BOOLEAN]

\* Row counts of a source table: empty, or MaxRows rows.
RowCounts == {0, MaxRows}

\* --resume, --full, or --phase P [--entity E]; run_validate takes no entity.
ArgsSet ==
    {[cmd |-> "resume", phase |-> "none", entity |-> "none"],
     [cmd |-> "full", phase |-> "none", entity |-> "none"]}
    \cup {[cmd |-> "phase", phase |-> p, entity |-> e] :
              p \in StepPhases, e \in EntitySet \cup {"none"}}
    \cup {[cmd |-> "phase", phase |-> "validate", entity |-> "none"]}

Terminal == {"done", "failed", "interrupted", "crashed"}
Running == {"main", "next", "loop", "step", "save", "dump"}

\* The entity a step or a save is working on.
ent == Head(ents)

\* The process ended because the step for ent raised.
FailedInStep == pc = "failed" /\ phase \in StepPhases

\* The entities of the active phase whose step and save completed in this invocation.
DoneBefore == {e \in EntitySet : <<phase, e>> \in Range(trace)} \ Range(ents)

NoFailure == [phase |-> "none", done |-> {}]

----------------------------------------------------------------------------
\* Checkpoint store

\* Faulty variant: the file is read whether or not checkpointing is enabled.
load_checkpoint_unconditional ==
    IF checkpoint_file.st = "ok" THEN checkpoint_file.data ELSE EmptyCheckpoint

\* load_checkpoint(): the persisted structure, or {} when absent or disabled.
load_checkpoint ==
    IF ~config.checkpointEnabled THEN EmptyCheckpoint
    ELSE IF checkpoint_file.st = "ok" THEN checkpoint_file.data
    ELSE EmptyCheckpoint

\* Faulty variant: the phase's mapping replaced by the new entry instead of merged.
MergedOverwritingPhase(ck, p, e, n) ==
    [q \in (DOMAIN ck) \cup {p} |-> IF q = p THEN [f \in {e} |-> n] ELSE ck[q]]

\* save_checkpoint, lines 77-81: self.checkpoint with the entry (p, e) set to n.
Merged(ck, p, e, n) ==
    LET old == IF p \in DOMAIN ck THEN ck[p] ELSE <<>>
        new == [f \in (DOMAIN old) \cup {e} |-> IF f = e THEN n ELSE old[f]]
    IN [q \in (DOMAIN ck) \cup {p} |-> IF q = p THEN new ELSE ck[q]]

\* Faulty variant: the file is left in place.
KeptCheckpointFile(f) == f

\* os.remove(self.checkpoint_file) when the file exists.
RemovedCheckpointFile(f) == AbsentCheckpointFile

----------------------------------------------------------------------------
\* No process has run yet: no checkpoint, no artifacts, empty target tables.
OrchestratorAtRest ==
    /\ args = [cmd |-> "none", phase |-> "none", entity |-> "none"]
    /\ dry_run = FALSE
    /\ checkpoint = EmptyCheckpoint
    /\ checkpoint_file = AbsentCheckpointFile
    /\ completed_phases = {}
    /\ frame = "none"
    /\ pc = "idle"
    /\ todo = <<>>
    /\ phase = "none"
    /\ ents = <<>>
    /\ count = 0
    /\ extracted = [e \in EntitySet |-> NoFile]
    /\ transformed = [e \in EntitySet |-> NoFile]
    /\ target = [e \in EntitySet |-> {}]
    /\ validation = "none"
    /\ runs = 0
    /\ trace = <<>>
    /\ succeeded = {}
    /\ start = [checkpoint |-> EmptyCheckpoint, file |-> AbsentCheckpointFile,
                target |-> [e \in EntitySet |-> {}]]
    /\ atStep = AbsentCheckpointFile
    /\ interruptedAt = "none"
    /\ prev = NoFailure

\* No extractor under observation.
ExtractorIdle == extractor = <<>>

\* The orchestrator left out of a specification of one component.
OrchestratorIdle ==
    /\ source = [e \in EntitySet |-> 0]
    /\ config = [continueOnError |-> FALSE, checkpointEnabled |-> TRUE]
    /\ OrchestratorAtRest
    /\ ExtractorIdle

\* No loader under observation.
LoaderIdle ==
    /\ all_items = <<>>
    /\ batch_size = DefaultBatchSize
    /\ offset = 0
    /\ chunks = <<>>
    /\ table = EmptyBag
    /\ lpc = "ready"
    /\ loads = 0
    /\ outcomes = <<>>
    /\ loaded_sales = 0

\* No transformer under observation.
TransformerIdle ==
    /\ impl = "pipeline"
    /\ kind = "buyers"
    /\ records = <<>>
    /\ out_items = <<>>
    /\ before = <<>>
    /\ passes = 0

\* No single field or item under observation.
FieldsIdle ==
    /\ raw_status = <<>>
    /\ status = <<>>
    /\ line = <<>>
    /\ derived = <<>>
    /\ sale = <<>>
    /\ result = <<>>
    /\ validator = <<>>

Init ==
    /\ source \in [EntitySet -> RowCounts]
    /\ config \in Configs
    /\ OrchestratorAtRest
    /\ ExtractorIdle
    /\ LoaderIdle
    /\ TransformerIdle
    /\ FieldsIdle

----------------------------------------------------------------------------
\* main() and MigrationOrchestrator.__init__

\* A new process: parse the command line and construct the orchestrator, which
\* loads the checkpoint file.  A file cut short by an interrupted write is not
\* JSON: json.load raises in __init__, outside main()'s try, and the process dies.
Invoke(a, dry) ==
    /\ pc \in {"idle"} \cup Terminal
    /\ runs < MaxRuns
    /\ runs' = runs + 1
    /\ args' = a
    /\ dry_run' = dry
    /\ prev' = IF FailedInStep THEN [phase |-> phase, done |-> DoneBefore]
                ELSE NoFailure
    /\ IF config.checkpointEnabled /\ checkpoint_file.st = "corrupt"
       THEN /\ pc' = "crashed"
            /\ checkpoint' = EmptyCheckpoint
       ELSE /\ pc' = "main"
            /\ checkpoint' = load_checkpoint
    /\ start' = [checkpoint |-> checkpoint', file |-> checkpoint_file, target |-> target]
    /\ atStep' = checkpoint_file
    /\ interruptedAt' = "none"
    /\ trace' = <<>>
    /\ frame' = "none"
    /\ todo' = <<>>
    /\ phase' = "none"
    /\ ents' = <<>>
    /\ count' = 0
    /\ validation' = "none"
    /\ completed_phases' = {}
    /\ UNCHANGED <<source, config, checkpoint_file, extracted, transformed, target,
                   succeeded, extractor>>
    /\ UNCHANGED dataVars

\* What every step inside a running process leaves alone.
ProcessFrame ==
    UNCHANGED <<source, config, args, dry_run, runs, start, prev, extractor, dataVars>>

\* ... and what every step but the interrupt leaves alone.
NotInterrupted == ProcessFrame /\ UNCHANGED interruptedAt

\* run_full(): the five phases, in order.
run_full ==
    /\ pc = "main"
    /\ args.cmd = "full"
    /\ frame' = "run_full"
    /\ todo' = FullPhases
    /\ pc' = "next"
    /\ NotInterrupted
    /\ UNCHANGED <<checkpoint, checkpoint_file, completed_phases, phase, ents, count,
                   extracted, transformed, target, validation, trace, succeeded, atStep>>

\* Faulty variant: the loop stops after the first phase it runs.
ResumeFirstPhaseOnly(done) ==
    IF SelectSeq2(Phases, done) = <<>> THEN <<>>
    ELSE <<Head(SelectSeq2(Phases, done))>>

\* resume(), lines 260-270: the phases the loop calls, given the checkpoint's keys.
ResumePhases(done) == SelectSeq2(Phases, done)

\* resume(): no checkpoint -> run_full(); otherwise every phase without a key.
resume ==
    /\ pc = "main"
    /\ args.cmd = "resume"
    /\ IF checkpoint = EmptyCheckpoint
       THEN /\ frame' = "run_full"
            /\ todo' = FullPhases
            /\ completed_phases' = completed_phases
       ELSE /\ frame' = "resume"
            /\ completed_phases' = DOMAIN checkpoint
            /\ todo' = ResumePhases(DOMAIN checkpoint)
    /\ pc' = "next"
    /\ NotInterrupted
    /\ UNCHANGED <<checkpoint, checkpoint_file, phase, ents, count,
                   extracted, transformed, target, validation, trace, succeeded, atStep>>

\* main(), lines 306-314: a single phase, optionally for a single entity.
run_phase ==
    /\ pc = "main"
    /\ args.cmd = "phase"
    /\ frame' = "phase"
    /\ todo' = <<args.phase>>
    /\ pc' = "next"
    /\ NotInterrupted
    /\ UNCHANGED <<checkpoint, checkpoint_file, completed_phases, phase, ents, count,
                   extracted, transformed, target, validation, trace, succeeded, atStep>>

----------------------------------------------------------------------------
\* run_extract / run_transform / run_load: the entity loop

\* entities = [entity] if entity else ['buyers', 'producers', 'sales']
PhaseEntities == IF args.cmd = "phase" /\ args.entity # "none"
                 THEN <<args.entity>> ELSE Entities

\* Entry of run_<p>: logs "Starting ... phase" and sets up the entity loop.
StartPhase(p) ==
    /\ pc = "next"
    /\ todo # <<>>
    /\ Head(todo) = p
    /\ phase' = p
    /\ ents' = PhaseEntities
    /\ trace' = Append(trace, <<p, "begin">>)
    /\ pc' = "loop"
    /\ NotInterrupted
    /\ UNCHANGED <<checkpoint, checkpoint_file, completed_phases, frame, todo, count,
                   extracted, transformed, target, validation, succeeded, atStep>>

run_extract == StartPhase("extract")
run_transform == StartPhase("transform")
run_load == StartPhase("load")

\* Loop head, dry run: "[DRY RUN] Would <phase> <ent>"; continue.
EntitySkip ==
    /\ pc = "loop"
    /\ ents # <<>>
    /\ dry_run
    /\ ents' = Tail(ents)
    /\ NotInterrupted
    /\ UNCHANGED <<checkpoint, checkpoint_file, completed_phases, frame, pc, todo, phase,
                   count, extracted, transformed, target, validation, trace, succeeded,
                   atStep>>

\* Loop head: call the entity's extract / transform / load.
EntityBegin ==
    /\ pc = "loop"
    /\ ents # <<>>
    /\ ~dry_run
    /\ trace' = Append(trace, <<phase, ent>>)
    /\ atStep' = checkpoint_file
    /\ pc' = "step"
    /\ NotInterrupted
    /\ UNCHANGED <<checkpoint, checkpoint_file, completed_phases, frame, todo, phase, ents,
                   count, extracted, transformed, target, validation, succeeded>>

\* Loop exhausted: "<Phase> phase completed"; run_<phase> returns.
PhaseEnd ==
    /\ pc = "loop"
    /\ ents = <<>>
    /\ todo' = Tail(todo)
    /\ pc' = "next"
    /\ NotInterrupted
    /\ UNCHANGED <<checkpoint, checkpoint_file, completed_phases, frame, phase, ents,
                   count, extracted, transformed, target, validation, trace, succeeded,
                   atStep>>

----------------------------------------------------------------------------
\* The steps: extract_<e>.extract, transform_<e>.transform, load_<e>.load

\* A step returned normally with the value n.
Returned(n) ==
    /\ count' = n
    /\ succeeded' = succeeded \cup {<<phase, ent>>}
    /\ pc' = "save"
    /\ NotInterrupted
    /\ UNCHANGED <<checkpoint, checkpoint_file, completed_phases, frame, todo, phase, ents,
                   validation, trace, atStep>>

\* Faulty variant: the exception is swallowed and the loop body goes on to save_checkpoint.
RaisedButSaved ==
    /\ count' = 0
    /\ pc' = "save"
    /\ NotInterrupted
    /\ UNCHANGED <<checkpoint, checkpoint_file, completed_phases, frame, todo, phase, ents,
                   validation, trace, succeeded, atStep>>

\* A step raised: the exception leaves run_<phase>, the active routine and
\* reaches main(), which prints "Migration failed" and exits 1.
Raised ==
    /\ pc' = "failed"
    /\ NotInterrupted
    /\ UNCHANGED <<checkpoint, checkpoint_file, completed_phases, frame, todo, phase, ents,
                   count, validation, trace, succeeded, atStep>>

\* extract: the rows of the source read and written to data/extracted/<ent>.json.
extract_ok ==
    /\ pc = "step"
    /\ phase = "extract"
    /\ extracted' = [extracted EXCEPT ![ent] = DataFile(source[ent])]
    /\ UNCHANGED <<transformed, target>>
    /\ Returned(source[ent])

\* extract: the connection or a query failed before the file was written.
extract_fail ==
    /\ pc = "step"
    /\ phase = "extract"
    /\ UNCHANGED <<extracted, transformed, target>>
    /\ Raised

\* transform: reads the extracted file, writes one item per record.
transform_ok ==
    /\ pc = "step"
    /\ phase = "transform"
    /\ extracted[ent].st = "ok"
    /\ transformed' = [transformed EXCEPT ![ent] = DataFile(extracted[ent].n)]
    /\ UNCHANGED <<extracted, target>>
    /\ Returned(extracted[ent].n)

\* transform: the input file is missing, or a record does not convert.
transform_fail ==
    /\ pc = "step"
    /\ phase = "transform"
    /\ UNCHANGED <<extracted, transformed, target>>
    /\ Raised

\* chunk_size = min(batch_size, 25)
ChunkSize == Min(DefaultBatchSize, DynamoBatchLimit)

\* number of chunks range(0, n, chunk_size) yields
NumChunks(n) == (n + ChunkSize - 1) \div ChunkSize

\* the items stored once the first k chunks of n items are written
Written(k, n) == 1..Min(k * ChunkSize, n)

\* load: every chunk of the transformed file written; an empty file returns 0.
load_ok ==
    /\ pc = "step"
    /\ phase = "load"
    /\ transformed[ent].st = "ok"
    /\ target' = [target EXCEPT ![ent] = @ \cup Written(NumChunks(transformed[ent].n),
                                                        transformed[ent].n)]
    /\ UNCHANGED <<extracted, transformed>>
    /\ Returned(transformed[ent].n)

\* load: the input file is missing, or the write of chunk k+1 failed; the
\* chunks before it stay written.
load_fail ==
    /\ pc = "step"
    /\ phase = "load"
    /\ \E k \in 0..MaxRows :
          /\ \/ transformed[ent].st # "ok" /\ k = 0
             \/ transformed[ent].st = "ok" /\ k < NumChunks(transformed[ent].n)
          /\ target' = [target EXCEPT ![ent] = @ \cup Written(k, transformed[ent].n)]
    /\ UNCHANGED <<extracted, transformed>>
    /\ Raised

----------------------------------------------------------------------------
\* save_checkpoint(phase, ent, count) and the end of the loop body

\* Checkpointing disabled: save_checkpoint returns at once.
save_checkpoint_disabled ==
    /\ pc = "save"
    /\ ~config.checkpointEnabled
    /\ ents' = Tail(ents)
    /\ pc' = "loop"
    /\ NotInterrupted
    /\ UNCHANGED <<checkpoint, checkpoint_file, completed_phases, frame, todo, phase,
                   count, extracted, transformed, target, validation, trace, succeeded,
                   atStep>>

\* Lines 77-84: the entry is merged in memory and the file is opened for
\* writing, which truncates it.
save_checkpoint_open ==
    /\ pc = "save"
    /\ config.checkpointEnabled
    /\ checkpoint' = Merged(checkpoint, phase, ent, count)
    /\ checkpoint_file' = TruncatedCheckpointFile
    /\ pc' = "dump"
    /\ NotInterrupted
    /\ UNCHANGED <<completed_phases, frame, todo, phase, ents, count, extracted,
                   transformed, target, validation, trace, succeeded, atStep>>

\* Line 85: json.dump(self.checkpoint, f); the loop moves to the next entity.
save_checkpoint_dump ==
    /\ pc = "dump"
    /\ checkpoint_file' = WrittenCheckpointFile(checkpoint)
    /\ ents' = Tail(ents)
    /\ pc' = "loop"
    /\ NotInterrupted
    /\ UNCHANGED <<checkpoint, completed_phases, frame, todo, phase, count, extracted,
                   transformed, target, validation, trace, succeeded, atStep>>

----------------------------------------------------------------------------
\* run_validate, the verify phase and the end of the routines

\* Faulty variant: the continueOnError test inverted.
ValidationHaltsInverted(res) == res = "failed" /\ config.continueOnError

\* Lines 163-167: a verdict that makes run_validate raise MigrationError.
ValidationHalts(res) == res = "failed" /\ ~config.continueOnError

\* run_validate(): a dry run returns before validating; otherwise the verdict
\* of validate_data.validate (or its exception) decides.
run_validate ==
    /\ pc = "next"
    /\ todo # <<>>
    /\ Head(todo) = "validate"
    /\ phase' = "validate"
    /\ trace' = Append(trace, <<"validate", "begin">>)
    /\ IF dry_run
       THEN /\ validation' = validation
            /\ todo' = Tail(todo)
            /\ pc' = "next"
       ELSE \E res \in {"passed", "failed", "error"} :
               /\ validation' = res
               /\ IF res = "error" \/ ValidationHalts(res)
                  THEN pc' = "failed" /\ todo' = todo
                  ELSE pc' = "next" /\ todo' = Tail(todo)
    /\ NotInterrupted
    /\ UNCHANGED <<checkpoint, checkpoint_file, completed_phases, frame, ents, count,
                   extracted, transformed, target, succeeded, atStep>>

\* run_full(), lines 223-226: compare_counts.compare when validateAfterLoad is set.
verify ==
    /\ pc = "next"
    /\ todo # <<>>
    /\ Head(todo) = "verify"
    /\ \E validateAfterLoad \in BOOLEAN :
          IF validateAfterLoad
          THEN /\ phase' = "verify"
               /\ trace' = Append(trace, <<"verify", "begin">>)
               /\ \E ok \in BOOLEAN :
                     IF ok THEN pc' = "next" /\ todo' = Tail(todo)
                           ELSE pc' = "failed" /\ todo' = todo
          ELSE /\ phase' = phase
               /\ trace' = trace
               /\ pc' = "next"
               /\ todo' = Tail(todo)
    /\ NotInterrupted
    /\ UNCHANGED <<checkpoint, checkpoint_file, completed_phases, frame, ents, count,
                   extracted, transformed, target, validation, succeeded, atStep>>

\* run_full(), lines 228-236: success; the checkpoint file is removed.
run_full_success ==
    /\ pc = "next"
    /\ todo = <<>>
    /\ frame = "run_full"
    /\ checkpoint_file' = RemovedCheckpointFile(checkpoint_file)
    /\ pc' = "done"
    /\ NotInterrupted
    /\ UNCHANGED <<checkpoint, completed_phases, frame, todo, phase, ents, count,
                   extracted, transformed, target, validation, trace, succeeded, atStep>>

\* resume() or a single phase returns to main(); exit status 0.
return ==
    /\ pc = "next"
    /\ todo = <<>>
    /\ frame \in {"resume", "phase"}
    /\ pc' = "done"
    /\ NotInterrupted
    /\ UNCHANGED <<checkpoint, checkpoint_file, completed_phases, frame, todo, phase,
                   ents, count, extracted, transformed, target, validation, trace,
                   succeeded, atStep>>

\* Faulty variant: an interrupt handler that records the entity in progress before exiting.
InterruptSavingProgress ==
    /\ pc \in Running
    /\ pc' = "interrupted"
    /\ interruptedAt' = pc
    /\ IF pc = "step"
       THEN /\ checkpoint' = Merged(checkpoint, phase, ent, 0)
            /\ checkpoint_file' = WrittenCheckpointFile(checkpoint')
       ELSE UNCHANGED <<checkpoint, checkpoint_file>>
    /\ ProcessFrame
    /\ UNCHANGED <<completed_phases, frame, todo, phase, ents, count, extracted,
                   transformed, target, validation, trace, succeeded, atStep>>

\* KeyboardInterrupt: not an Exception, so only main() catches it; it prints
\* "Migration interrupted by user" and exits 1.  A load that is cut short keeps
\* the chunks it has written; a checkpoint write that is cut short leaves the
\* truncated file.
Interrupt ==
    /\ pc \in Running
    /\ pc' = "interrupted"
    /\ interruptedAt' = pc
    /\ IF pc = "step" /\ phase = "load" /\ transformed[ent].st = "ok"
       THEN \E k \in 0..MaxRows :
               /\ k <= NumChunks(transformed[ent].n)
               /\ target' = [target EXCEPT ![ent] = @ \cup Written(k, transformed[ent].n)]
       ELSE target' = target
    /\ ProcessFrame
    /\ UNCHANGED <<checkpoint, checkpoint_file, completed_phases, frame, todo, phase,
                   ents, count, extracted, transformed, validation, trace, succeeded,
                   atStep>>

----------------------------------------------------------------------------
Next ==
    \/ \E a \in ArgsSet, dry \in BOOLEAN : Invoke(a, dry)
    \/ run_full
    \/ resume
    \/ run_phase
    \/ run_extract
    \/ run_transform
    \/ run_load
    \/ EntitySkip
    \/ EntityBegin
    \/ PhaseEnd
    \/ extract_ok
    \/ extract_fail
    \/ transform_ok
    \/ transform_fail
    \/ load_ok
    \/ load_fail
    \/ save_checkpoint_disabled
    \/ save_checkpoint_open
    \/ save_checkpoint_dump
    \/ run_validate
    \/ verify
    \/ run_full_success
    \/ return
    \/ Interrupt

Spec == Init /\ [][Next]_vars

----------------------------------------------------------------------------
\* The loaders: load/load_buyers.py, load/load_producers.py, load/load_sales.py.
\* One loader reads one transformed file and writes its items to one table
\* in chunks; the file and the table persist from one run to the next.

\* The k-th item of the transformed file; its primary key is (PK, SK).
Item(k) == [PK |-> k, SK |-> "METADATA"]
Key(item) == <<item.PK, item.SK>>

\* Faulty variant: a write that stores the item next to what the table holds.
InsertItem(t, item) == t (+) SetToBag({item})

\* batch.put_item(Item=item): the item is stored under its primary key and
\* replaces whatever the table held under that key.
PutItem(t, item) ==
    LET others == {x \in BagToSet(t) : Key(x) # Key(item)}
    IN  [x \in others |-> t[x]] (+) SetToBag({item})

\* with table.batch_writer() as batch: for item in chunk: batch.put_item(...)
RECURSIVE batch_writer(_, _)
batch_writer(t, items) ==
    IF items = <<>> THEN t
    ELSE batch_writer(PutItem(t, Head(items)), Tail(items))

\* Faulty variant: the configured batch size is used as it is.
chunk_size_uncapped == batch_size

\* chunk_size = min(batch_size, 25)
chunk_size == Min(batch_size, DynamoBatchLimit)

\* chunk = items[i:i + chunk_size]
chunk == SubSeq(all_items, offset + 1, Min(offset + chunk_size, Len(all_items)))

\* How a run ended, and whether it had written a chunk.
Outcome(ok) == [ok |-> ok, wrote |-> chunks # <<>>]

LoadInit ==
    /\ OrchestratorIdle
    /\ TransformerIdle
    /\ FieldsIdle
    /\ \E n \in 0..MaxItems : all_items = [k \in 1..n |-> Item(k)]
    /\ batch_size \in 1..MaxBatch
    /\ offset = 0
    /\ chunks = <<>>
    /\ table = EmptyBag
    /\ lpc = "ready"
    /\ loads = 0
    /\ outcomes = <<>>
    /\ loaded_sales = 0

LoaderFrame ==
    UNCHANGED <<orchestratorVars, transformVars, fieldVars, all_items, batch_size,
                loaded_sales>>

\* load(config, progress) is called: the file is read; an empty file returns 0
\* at once, otherwise the loop starts at i = 0.
load ==
    /\ lpc \in {"ready", "done", "failed"}
    /\ loads < MaxLoads
    /\ loads' = loads + 1
    /\ offset' = 0
    /\ chunks' = <<>>
    /\ IF all_items = <<>>
       THEN /\ lpc' = "done"
            /\ outcomes' = Append(outcomes, [ok |-> TRUE, wrote |-> FALSE])
       ELSE /\ lpc' = "writing"
            /\ outcomes' = outcomes
    /\ table' = table
    /\ LoaderFrame

\* One iteration of the loop: the chunk is written in one batch.
write_chunk ==
    /\ lpc = "writing"
    /\ offset < Len(all_items)
    /\ table' = batch_writer(table, chunk)
    /\ chunks' = Append(chunks, chunk)
    /\ offset' = offset + chunk_size
    /\ UNCHANGED <<lpc, loads, outcomes>>
    /\ LoaderFrame

\* The batch write raises: the exception leaves load(); the chunks written
\* before stay written (nothing rolls back), and of the failing chunk the
\* items the store had accepted before the failure (none, or some) stay too.
write_chunk_fails ==
    /\ lpc = "writing"
    /\ offset < Len(all_items)
    /\ \E j \in 0..Min(Len(chunk) - 1, MaxPartial) :
          table' = batch_writer(table, SubSeq(chunk, 1, j))
    /\ lpc' = "failed"
    /\ outcomes' = Append(outcomes, Outcome(FALSE))
    /\ UNCHANGED <<offset, chunks, loads>>
    /\ LoaderFrame

\* The loop is over: return loaded.
load_return ==
    /\ lpc = "writing"
    /\ offset >= Len(all_items)
    /\ lpc' = "done"
    /\ outcomes' = Append(outcomes, Outcome(TRUE))
    /\ UNCHANGED <<offset, chunks, table, loads>>
    /\ LoaderFrame

LoadNext ==
    \/ load
    \/ write_chunk
    \/ write_chunk_fails
    \/ load_return

SpecLoad == LoadInit /\ [][LoadNext]_vars

----------------------------------------------------------------------------
\* The transformers: migration/transform/transform_*.py (run by the
\* orchestrator over the extracted records) and transform_buyers,
\* transform_producers, transform_sales of migrate_to_dynamodb.py (run over
\* the rows of the source tables).  A string built from parts, such as
\* f'SALE#{sale_id}', is modelled as the sequence of its parts.

Impls == {"pipeline", "script"}

\* An optional number: None is <<>>, a present value v is <<v>>.
None == <<>>
Some(v) == <<v>>

\* x or d, for an optional number x: None and 0 are falsy.
Or(x, d) == IF x = None \/ x = Some(0) THEN d ELSE x[1]

\* The line numbers of the lines of one sale.
LinePatterns == {"distinct", "equal", "zero", "missing"}

LineNumber(p, j) ==
    CASE p = "distinct" -> Some(j)
      [] p = "equal" -> Some(1)
      [] p = "zero" -> Some(0)
      [] p = "missing" -> None

LineLists ==
    {[j \in 1..n |-> LineNumber(p, j)] : n \in 0..MaxLines, p \in LinePatterns}

\* Source rows; ids are primary keys.
PartyRows(n) == [k \in 1..n |-> [id |-> k, lines |-> <<>>]]

SaleRows(f) ==
    [k \in 1..Len(f) |->
        [id |-> k,
         lines |-> [j \in 1..Len(f[k]) |->
                      [id |-> (k - 1) * MaxLines + j, line_number |-> f[k][j]]]]]

RecordInputs(e) ==
    IF e = "sales"
    THEN {SaleRows(f) : f \in UNION {[1..n -> LineLists] : n \in 0..MaxSales}}
    ELSE {PartyRows(n) : n \in 0..MaxParties}

RECURSIVE Flatten(_)
Flatten(ss) == IF ss = <<>> THEN <<>> ELSE Head(ss) \o Flatten(Tail(ss))

\* str(uuid.uuid4()): a value never drawn before.  Such values are only ever
\* compared for equality, so each is named by the occasion of its draw: the
\* pass, the record and the line (0 for the record itself).
uuid4(pass, k, j) == <<"uuid", pass, k, j>>

EntityPrefix(e) ==
    CASE e = "buyers" -> "BUYER#"
      [] e = "producers" -> "PRODUCER#"
      [] e = "sales" -> "SALE#"

\* Faulty variant: the key is the bare identifier.
PKWithoutPrefix(e, id) == <<"", id>>

\* 'PK': f'BUYER#{buyer_id}', f'PRODUCER#{producer_id}', f'SALE#{sale_id}'
PK(e, id) == <<EntityPrefix(e), id>>

\* Faulty variant: the index of the last line, counted from 0.
LinesCountFromZero(lines) == IF lines = <<>> THEN 0 ELSE Len(lines) - 1

\* 'linesCount': len(s.get('lines') or []); "linesCount": len(lines_for_sale)
LinesCount(lines) == Len(lines)

\* The item of an entity record.  origin names the source record (and line)
\* the item was made from.
MetadataItem(e, id, k, n) ==
    [PK |-> PK(e, id), SK |-> <<"METADATA">>, entityId |-> id, lineId |-> None,
     lineNumber |-> None, linesCount |-> n, origin |-> <<k, 0>>]

LineItem(id, sk, line_id, number, k, j) ==
    [PK |-> PK("sales", id), SK |-> <<"LINE#", sk>>, entityId |-> id, lineId |-> line_id,
     lineNumber |-> Some(number), linesCount |-> None, origin |-> <<k, j>>]

\* extract_sales.py: the canonical lines of a sale, in query order.
CanonicalLines(lines) ==
    [i \in 1..Len(lines) |->
        [line_id |-> lines[i].id, line_number |-> Some(Or(lines[i].line_number, i))]]

\* transform() of transform_buyers.py, transform_producers.py and
\* transform_sales.py: one uuid per record and one per line.
transform_pipeline(e, recs, pass) ==
    Flatten([k \in 1..Len(recs) |->
        LET id == uuid4(pass, k, 0)
            lines == CanonicalLines(recs[k].lines)
            n == IF e = "sales" THEN Some(LinesCount(lines)) ELSE None
        IN  <<MetadataItem(e, id, k, n)>> \o
            [i \in 1..Len(lines) |->
                LineItem(id, uuid4(pass, k, i), uuid4(pass, k, i),
                         Or(lines[i].line_number, i), k, i)]])

\* bid = f"BUYER{b['id']}", pid = f"PROD{p['id']}", sale_id = f"SALE{sale_id_num}"
SurrogatePrefix(e) ==
    CASE e = "buyers" -> "BUYER"
      [] e = "producers" -> "PROD"
      [] e = "sales" -> "SALE"

\* f"{pos:03d}": three decimal digits, zero-padded.
Pad3(n) == <<n \div 100, (n \div 10) % 10, n % 10>>

\* The rows of table sale_lines: every line with the id of its sale.
sale_lines_rows(recs) ==
    Flatten([k \in 1..Len(recs) |->
        [j \in 1..Len(recs[k].lines) |->
            [id |-> recs[k].lines[j].id, sale_id |-> recs[k].id,
             pos |-> recs[k].lines[j].line_number, origin |-> <<k, j>>]]])

\* lines_by_sale.get(sale_id_num, [])
lines_by_sale(rows, sid) == SelectSeq(rows, LAMBDA r : r.sale_id = sid)

\* transform_buyers, transform_producers, transform_sales of
\* migrate_to_dynamodb.py: the entity items, then the line items.
transform_script(e, recs) ==
    LET rows == sale_lines_rows(recs)
        sid(k) == <<SurrogatePrefix(e), recs[k].id>>
        lines_for_sale(k) == lines_by_sale(rows, recs[k].id)
        n(k) == IF e = "sales" THEN Some(LinesCount(lines_for_sale(k))) ELSE None
        sale_items == [k \in 1..Len(recs) |-> MetadataItem(e, sid(k), k, n(k))]
        line_items ==
            Flatten([k \in 1..Len(recs) |->
                [j \in 1..Len(lines_for_sale(k)) |->
                    LET sl == lines_for_sale(k)[j]
                        pos == Or(sl.pos, 0)
                    IN  LineItem(sid(k), Pad3(pos), <<"LINE", sl.id>>, pos,
                                 sl.origin[1], sl.origin[2])]])
    IN  sale_items \o line_items

TransformInit ==
    /\ OrchestratorIdle
    /\ LoaderIdle
    /\ FieldsIdle
    /\ impl \in Impls
    /\ kind \in EntitySet
    /\ records \in RecordInputs(kind)
    /\ out_items = <<>>
    /\ before = <<>>
    /\ passes = 0

TransformerFrame ==
    UNCHANGED <<orchestratorVars, fieldVars, all_items, batch_size, offset, chunks, lpc,
                loads, outcomes, loaded_sales, impl, kind, records>>

\* One run of the transformer of the entity over its records.
transform ==
    /\ passes < MaxPasses
    /\ passes' = passes + 1
    /\ before' = IF passes = 0 THEN before ELSE Append(before, out_items)
    /\ out_items' = IF impl = "pipeline"
                    THEN transform_pipeline(kind, records, passes + 1)
                    ELSE transform_script(kind, records)
    /\ table' = table
    /\ TransformerFrame

\* The transformed items are loaded: the loader writes them to the table;
\* main() of migrate_to_dynamodb.py clears the table first.
load_items ==
    /\ passes >= 1
    /\ table' = IF impl = "pipeline"
                THEN batch_writer(table, out_items)
                ELSE batch_writer(EmptyBag, out_items)
    /\ UNCHANGED <<out_items, before, passes>>
    /\ TransformerFrame

TransformNext ==
    \/ transform
    \/ load_items

SpecTransform == TransformInit /\ [][TransformNext]_vars

----------------------------------------------------------------------------
\* Status normalization: _map_status of transform_sales.py and the 'status'
\* of transform_buyers.py and transform_producers.py ("pipeline");
\* map_sale_status and map_buyer_status of migrate_to_dynamodb.py ("script").
\* A value of the source field is no key at all, None, a boolean or a string;
\* a string is a word in some letter case, with or without blanks around it.

Cases == {"lower", "upper", "mixed"}

NoKey == [t |-> "missing", word |-> "", case |-> "lower", padded |-> FALSE]
Null == [t |-> "none", word |-> "none", case |-> "mixed", padded |-> FALSE]
Flag(b) ==
    [t |-> "bool", word |-> IF b THEN "true" ELSE "false", case |-> "mixed",
     padded |-> FALSE]
Token(w, c, p) == [t |-> "str", word |-> w, case |-> c, padded |-> p]

\* d.get(key) and d.get(key, default)
get(v) == IF v.t = "missing" THEN Null ELSE v
get_or(v, default) == IF v.t = "missing" THEN default ELSE v

\* str(v): 'None', 'True', 'False', or the string itself
str(v) == [v EXCEPT !.t = "str"]

\* s.lower() and s.strip()
lower(v) == [v EXCEPT !.case = "lower"]
strip(v) == [v EXCEPT !.padded = FALSE]

\* Python truth value: None, False and '' are falsy.
Truthy(v) ==
    CASE v.t \in {"missing", "none"} -> FALSE
      [] v.t = "bool" -> v.word = "true"
      [] v.t = "str" -> v.word # "" \/ v.padded

\* table.get(key, default): the keys of both tables are bare lower-case words.
Lookup(tbl, v, default) ==
    IF v.case = "lower" /\ ~v.padded /\ v.word \in DOMAIN tbl
    THEN tbl[v.word]
    ELSE default

mapping ==
    [w \in {"confirmed", "confermato", "conf"} |-> "confirmed"] @@
    [w \in {"invoiced", "fatturato"} |-> "invoiced"] @@
    [w \in {"paid", "pagato"} |-> "paid"] @@
    [w \in {"cancelled", "annullato", "annullata"} |-> "cancelled"] @@
    [w \in {"draft", "bozza"} |-> "draft"]

STATUS_MAP ==
    [w \in {"new", "to verify", "proforma"} |-> "draft"] @@
    ("ready" :> "confirmed") @@ ("sent" :> "invoiced") @@ ("paid" :> "paid") @@
    ("deleted" :> "cancelled")

\* _map_status(raw_status)
map_status(raw) ==
    IF Truthy(raw) THEN Lookup(mapping, lower(str(raw)), "confirmed") ELSE "confirmed"

\* safe_str(val, default)
safe_str(val, default) == IF val.t = "none" THEN default ELSE strip(str(val))

\* map_sale_status(raw)
map_sale_status(raw) ==
    IF raw.t = "none"
    THEN "draft"
    ELSE Lookup(STATUS_MAP, strip(lower(str(raw))), "draft")

\* map_buyer_status(raw)
map_buyer_status(raw) ==
    IF raw.t = "none"
    THEN "active"
    ELSE IF strip(lower(str(raw))) = Token("online", "lower", FALSE)
         THEN "active"
         ELSE "inactive"

\* The source tokens: every word of either table, one of neither, the empty
\* string; for a buyer or producer also the booleans of column enabled.
SaleWords == DOMAIN mapping \cup DOMAIN STATUS_MAP \cup {"shipped"}
PartyWords == {"online", "offline"}

Strings(words) ==
    {Token(w, c, p) : w \in words, c \in Cases, p \in BOOLEAN} \cup
    {Token("", "lower", p) : p \in BOOLEAN}

RawTokens(e) ==
    IF e = "sales"
    THEN {NoKey, Null} \cup Strings(SaleWords)
    ELSE {NoKey, Null, Flag(TRUE), Flag(FALSE)} \cup Strings(PartyWords)

StatusInit ==
    /\ OrchestratorIdle
    /\ LoaderIdle
    /\ impl \in Impls
    /\ kind \in EntitySet
    /\ records = <<>>
    /\ out_items = <<>>
    /\ before = <<>>
    /\ passes = 0
    /\ raw_status \in RawTokens(kind)
    /\ status = None
    /\ line = <<>>
    /\ derived = <<>>
    /\ sale = <<>>
    /\ result = <<>>
    /\ validator = <<>>

StatusFrame ==
    UNCHANGED <<orchestratorVars, loaderVars, transformVars, raw_status, line, derived,
                sale, result, validator>>

\* 'status': _map_status(s.get('status')) in transform_sales.py;
\* raw_status = safe_str(s.get("status"), "new"); status =
\* map_sale_status(raw_status) in migrate_to_dynamodb.py.
sale_status ==
    /\ kind = "sales"
    /\ status = None
    /\ status' = IF impl = "pipeline"
                 THEN Some(map_status(get(raw_status)))
                 ELSE Some(map_sale_status(
                              safe_str(get(raw_status), Token("new", "lower", FALSE))))
    /\ StatusFrame

\* 'status': 'active' if b.get('enabled', True) else 'inactive' in
\* transform_buyers.py and transform_producers.py; status =
\* map_buyer_status(b.get("status")) in migrate_to_dynamodb.py.
party_status ==
    /\ kind # "sales"
    /\ status = None
    /\ status' = IF impl = "pipeline"
                 THEN IF Truthy(get_or(raw_status, Flag(TRUE)))
                      THEN Some("active")
                      ELSE Some("inactive")
                 ELSE Some(map_buyer_status(get(raw_status)))
    /\ StatusFrame

StatusNext ==
    \/ sale_status
    \/ party_status

SpecStatus == StatusInit /\ [][StatusNext]_vars

----------------------------------------------------------------------------
\* The derivation of the amounts of a sale line (transform_sales.py, the
\* loop over s['lines']).  Money is counted in units of 0.0001, the precision
\* the derivation rounds to; quantity and the two percentages are whole
\* numbers.  Every field of a line is an optional number.

\* round(a / b, 0) for b > 0: to the nearest integer, a tie to the even one.
RoundHalfEven(a, b) ==
    LET q == a \div b
        r == a % b
    IN  IF 2 * r < b THEN q
        ELSE IF 2 * r > b THEN q + 1
        ELSE IF q % 2 = 0 THEN q ELSE q + 1

\* Faulty variant: the discount is taken off a supplied net amount as well.
net_amount_discounted_again(supplied, gross, discount_amount) ==
    Or(supplied, gross) - discount_amount

\* net_amount = float(l.get('net_amount') or round(quantity * unit_price - discount_amount, 4))
net_amount(supplied, gross, discount_amount) == Or(supplied, gross - discount_amount)

\* The eight numbers of the line item, from the fields of the extracted line.
Derive(l) ==
    LET quantity == Or(l.quantity, 1)
        unit_price == Or(l.unit_price, 0)
        discount == Or(l.discount, 0)
        discount_amount ==
            Or(l.discount_amount, RoundHalfEven(quantity * unit_price * discount, 100))
        net == net_amount(l.net_amount, quantity * unit_price, discount_amount)
        tax_rate == Or(l.tax_rate, 22)
        tax_amount == Or(l.tax_amount, RoundHalfEven(net * tax_rate, 100))
        total_amount == Or(l.total_amount, net + tax_amount)
    IN  [quantity |-> quantity, unitPrice |-> unit_price, discount |-> discount,
         discountAmount |-> discount_amount, netAmount |-> net, taxRate |-> tax_rate,
         taxAmount |-> tax_amount, totalAmount |-> total_amount]

\* The line item read as an extracted line: each output under the name of the
\* field it was derived for.
FeedBack(o) ==
    [quantity |-> Some(o.quantity), unit_price |-> Some(o.unitPrice),
     discount |-> Some(o.discount), discount_amount |-> Some(o.discountAmount),
     net_amount |-> Some(o.netAmount), tax_rate |-> Some(o.taxRate),
     tax_amount |-> Some(o.taxAmount), total_amount |-> Some(o.totalAmount)]

Optional(values) == {None} \cup {Some(v) : v \in values}

\* Extracted lines: prices such as 0.3333 and 1.2345 make the roundings bite.
Lines ==
    [quantity : Optional({0, 1, 2, 3}),
     unit_price : Optional({0, 5, 3333, 12345, 100000}),
     discount : Optional({0, 10, 50, 100}),
     tax_rate : Optional({0, 10, 22}),
     discount_amount : Optional({0, 7}),
     net_amount : Optional({0}),
     tax_amount : Optional({0}),
     total_amount : Optional({0, 7})]

DeriveInit ==
    /\ OrchestratorIdle
    /\ LoaderIdle
    /\ TransformerIdle
    /\ raw_status = <<>>
    /\ status = <<>>
    /\ line \in Lines
    /\ derived = <<>>
    /\ sale = <<>>
    /\ result = <<>>
    /\ validator = <<>>

\* One run of the derivation: over the extracted line, then over its own
\* latest output.
derive ==
    /\ Len(derived) < MaxDerivations
    /\ derived' = Append(derived, Derive(IF derived = <<>>
                                         THEN line
                                         ELSE FeedBack(derived[Len(derived)])))
    /\ UNCHANGED <<orchestratorVars, loaderVars, transformVars, raw_status, status, line,
                   sale, result, validator>>

DeriveNext == derive

SpecDerive == DeriveInit /\ [][DeriveNext]_vars

----------------------------------------------------------------------------
\* MigrationValidator.validate_sale (validate-migration.py).  A sale item is a
\* function from field names to values.  A value is no key at all, None, a
\* number (money in units of 0.001) or a string; a string is written as a
\* key prefix ('SALE#', 'BUYER#', ... or none) followed by the rest.

Tolerance == 10     \* abs(...) > 0.01, in units of 0.001

NoField == [t |-> "missing", pre |-> "", s |-> "", n |-> 0]
NullValue == [t |-> "none", pre |-> "", s |-> "", n |-> 0]
Num(n) == [t |-> "num", pre |-> "", s |-> "", n |-> n]
Str(pre, s) == [t |-> "str", pre |-> pre, s |-> s, n |-> 0]

required_fields ==
    <<"PK", "SK", "EntityType", "SaleId", "BuyerId", "ProducerId", "SaleDate", "Status",
      "Total">>
valid_statuses == {"DRAFT", "CONFIRMED", "INVOICED", "SHIPPED", "DELIVERED", "CANCELLED"}
numeric_fields == <<"Total", "Subtotal", "Discount", "Tax">>
date_fields == <<"SaleDate", "CreatedAt", "UpdatedAt">>
gsi_fields == <<"GSI1PK", "GSI2PK", "GSI3PK">>
gsi_prefixes == <<"BUYER#", "PRODUCER#", "STATUS#">>

SaleFields ==
    Range(required_fields) \cup Range(numeric_fields) \cup Range(date_fields) \cup
    Range(gsi_fields)

\* field in sale; not sale[field]
Has(item, f) == item[f].t # "missing"
Falsy(v) ==
    \/ v.t = "none"
    \/ v.t = "num" /\ v.n = 0
    \/ v.t = "str" /\ v.pre = "" /\ v.s = ""

\* sale[field].replace('Z', '+00:00'), over the date strings of the model
replace_Z(d) == IF d = "2024-01-01T00:00:00Z" THEN "2024-01-01T00:00:00+00:00" ELSE d

\* datetime.fromisoformat(d) returns, for the date strings of the model
IsoFormat(d) == d \in {"2024-01-01", "2024-01-01T00:00:00+00:00"}

\* What validate_sale has done so far: the errors and warnings it appended,
\* and whether an exception has left it.
NoReport == [errors |-> <<>>, warnings |-> <<>>, raised |-> FALSE]

error(r, what, f) ==
    IF r.raised THEN r ELSE [r EXCEPT !.errors = Append(@, <<what, f>>)]

raise(r) == [r EXCEPT !.raised = TRUE]

RECURSIVE check_required(_, _, _)
check_required(r, item, fields) ==
    IF fields = <<>>
    THEN r
    ELSE LET f == Head(fields)
         IN  check_required(IF ~Has(item, f) \/ Falsy(item[f])
                            THEN error(r, "Missing required field", f)
                            ELSE r,
                            item, Tail(fields))

\* if f in sale and not sale[f].startswith(prefix); a value that is not a
\* string has no startswith: AttributeError.
check_prefix(r, item, f, prefix) ==
    IF r.raised \/ ~Has(item, f) THEN r
    ELSE IF item[f].t # "str" THEN raise(r)
    ELSE IF item[f].pre = prefix THEN r
    ELSE error(r, "Invalid format", f)

check_SK(r, item) ==
    IF Has(item, "SK") /\ item["SK"] # Str("", "#METADATA#sale")
    THEN error(r, "Invalid SK", "SK")
    ELSE r

check_status(r, item) ==
    IF Has(item, "Status") /\ item["Status"] \notin {Str("", x) : x \in valid_statuses}
    THEN error(r, "Invalid status", "Status")
    ELSE r

RECURSIVE check_numeric(_, _, _)
check_numeric(r, item, fields) ==
    IF fields = <<>>
    THEN r
    ELSE LET f == Head(fields)
         IN  check_numeric(IF ~Has(item, f) THEN r
                           ELSE IF item[f].t # "num" THEN error(r, "must be numeric", f)
                           ELSE IF item[f].n < 0 THEN error(r, "cannot be negative", f)
                           ELSE r,
                           item, Tail(fields))

\* A value that is not a string has no replace: AttributeError, caught.
RECURSIVE check_dates(_, _, _)
check_dates(r, item, fields) ==
    IF fields = <<>>
    THEN r
    ELSE LET f == Head(fields)
         IN  check_dates(IF ~Has(item, f) \/ Falsy(item[f]) THEN r
                         ELSE IF item[f].t = "str" /\ item[f].pre = ""
                                 /\ IsoFormat(replace_Z(item[f].s)) THEN r
                         ELSE error(r, "Invalid date format", f),
                         item, Tail(fields))

RECURSIVE check_gsi(_, _, _)
check_gsi(r, item, i) ==
    IF i > Len(gsi_fields)
    THEN r
    ELSE check_gsi(check_prefix(r, item, gsi_fields[i], gsi_prefixes[i]), item, i + 1)

\* abs(sale['Total'] - expected_total)
Mismatch(item) ==
    LET d == item["Total"].n - (item["Subtotal"].n - item["Discount"].n + item["Tax"].n)
    IN  IF d < 0 THEN -d ELSE d

\* ... > 0.01 in binary floating point: a difference of exactly 0.01 in
\* decimal may compare either way (abs(122.01 - 122.0) > 0.01 is True).
Exceeds(item) ==
    IF Mismatch(item) > Tolerance THEN {TRUE}
    ELSE IF Mismatch(item) = Tolerance THEN BOOLEAN
    ELSE {FALSE}

\* The business rule; arithmetic on a value that is not a number: TypeError.
check_total(r, item, exceeds) ==
    IF r.raised \/ \E f \in Range(numeric_fields) : ~Has(item, f) THEN r
    ELSE IF \E f \in Range(numeric_fields) : item[f].t # "num" THEN raise(r)
    ELSE IF exceeds THEN [r EXCEPT !.warnings = Append(@, <<"Total mismatch", "Total">>)]
    ELSE r

validate_sale(item, exceeds) ==
    LET r1 == check_required(NoReport, item, required_fields)
        r2 == check_prefix(r1, item, "PK", "SALE#")
        r3 == check_SK(r2, item)
        r4 == check_status(r3, item)
        r5 == check_numeric(r4, item, numeric_fields)
        r6 == check_dates(r5, item, date_fields)
        r7 == check_gsi(r6, item, 1)
        r8 == check_total(r7, item, exceeds)
    IN  [errors |-> r8.errors, warnings |-> r8.warnings,
         outcome |-> IF r8.raised THEN "raised"
                     ELSE IF r8.errors = <<>> THEN "valid" ELSE "invalid"]

\* A sale item that passes every check.
WellFormed ==
    [f \in SaleFields |->
        CASE f = "PK" -> Str("SALE#", "1")
          [] f = "SK" -> Str("", "#METADATA#sale")
          [] f = "EntityType" -> Str("", "Sale")
          [] f \in {"SaleId", "BuyerId", "ProducerId"} -> Str("", "1")
          [] f = "SaleDate" -> Str("", "2024-01-01")
          [] f = "Status" -> Str("", "CONFIRMED")
          [] f = "Total" -> Num(122000)
          [] f = "Subtotal" -> Num(100000)
          [] f = "Discount" -> Num(0)
          [] f = "Tax" -> Num(22000)
          [] f \in {"CreatedAt", "UpdatedAt"} -> Str("", "2024-01-01T00:00:00Z")
          [] f = "GSI1PK" -> Str("BUYER#", "1")
          [] f = "GSI2PK" -> Str("PRODUCER#", "1")
          [] f = "GSI3PK" -> Str("STATUS#", "CONFIRMED")]

\* The other values a field is given.
Variants(f) ==
    CASE f = "PK" -> {NoField, NullValue, Str("", ""), Str("BUYER#", "1"), Num(5)}
      [] f = "SK" -> {NoField, Str("", ""), Str("", "METADATA")}
      [] f \in {"EntityType", "SaleId", "BuyerId", "ProducerId"} -> {NoField, Str("", "")}
      [] f = "SaleDate" ->
            {NoField, Str("", ""), Str("", "01/02/2024"),
             Str("", "2024-01-01T00:00:00Z"), Num(20240101)}
      [] f = "Status" -> {NoField, Str("", ""), Str("", "confirmed"), Str("", "PAID")}
      [] f = "Total" ->
            {NoField, Num(0), Num(-5000), Num(999000), Num(122005), Num(122010),
             Num(122011), Str("", "abc")}
      [] f \in {"Subtotal", "Discount", "Tax"} -> {NoField, Num(-1000), Str("", "abc")}
      [] f \in {"CreatedAt", "UpdatedAt"} -> {NoField, NullValue, Str("", "01/02/2024")}
      [] f \in {"GSI1PK", "GSI2PK", "GSI3PK"} -> {NoField, Str("SALE#", "1"), Num(5)}

\* The items that differ from the well-formed one in at most k fields.
RECURSIVE Altered(_)
Altered(k) ==
    IF k = 0
    THEN {WellFormed}
    ELSE LET fewer == Altered(k - 1)
         IN  fewer \cup
             UNION {{[p[1] EXCEPT ![p[2]] = v] : v \in Variants(p[2])} :
                        p \in fewer \X SaleFields}

Unvalidated == [errors |-> <<>>, warnings |-> <<>>, outcome |-> "none"]

ValidateInit ==
    /\ OrchestratorIdle
    /\ LoaderIdle
    /\ TransformerIdle
    /\ raw_status = <<>>
    /\ status = <<>>
    /\ line = <<>>
    /\ derived = <<>>
    /\ sale \in Altered(MaxFaults)
    /\ result = Unvalidated
    /\ validator = <<>>

\* validate_file hands the record to validate_sale.
validate_record ==
    /\ result = Unvalidated
    /\ \E exceeds \in Exceeds(sale) : result' = validate_sale(sale, exceeds)
    /\ UNCHANGED <<orchestratorVars, loaderVars, transformVars, raw_status, status, line,
                   derived, sale, validator>>

ValidateNext == validate_record

SpecValidate == ValidateInit /\ [][ValidateNext]_vars

----------------------------------------------------------------------------
\* MigrationValidator over files: validate_buyer, validate_producer,
\* validate_file, generate_report and the verdict of main()
\* (validate-migration.py).

IdField(e) == IF e = "buyers" THEN "BuyerId" ELSE "ProducerId"

party_required(e) == <<"PK", "SK", "EntityType", IdField(e), "Name", "Document", "Status">>

party_statuses(e) ==
    IF e = "buyers"
    THEN {"ACTIVE", "INACTIVE", "BLOCKED", "SUSPENDED"}
    ELSE {"ACTIVE", "INACTIVE", "SUSPENDED"}

PartyFields(e) == Range(party_required(e)) \cup {"GSI1PK", "GSI1SK"}

\* if f in item and item[f] != literal
check_equals(r, item, f, literal, what) ==
    IF Has(item, f) /\ item[f] # literal THEN error(r, what, f) ELSE r

\* validate_buyer(buyer), validate_producer(producer)
validate_party(item, e) ==
    LET r1 == check_required(NoReport, item, party_required(e))
        r2 == check_prefix(r1, item, "PK", EntityPrefix(e))
        r3 == check_equals(r2, item, "SK",
                           Str("", IF e = "buyers" THEN "#METADATA#buyer"
                                                   ELSE "#METADATA#producer"),
                           "Invalid SK")
        r4 == IF Has(item, "Status")
                 /\ item["Status"] \notin {Str("", x) : x \in party_statuses(e)}
              THEN error(r3, "Invalid status", "Status")
              ELSE r3
        r5 == check_equals(r4, item, "GSI1PK",
                           Str("", IF e = "buyers" THEN "BUYERS" ELSE "PRODUCERS"),
                           "Invalid GSI1PK")
        r6 == check_prefix(r5, item, "GSI1SK", EntityPrefix(e))
    IN  [errors |-> r6.errors, warnings |-> r6.warnings,
         outcome |-> IF r6.raised THEN "raised"
                     ELSE IF r6.errors = <<>> THEN "valid" ELSE "invalid"]

\* A buyer (producer) item that passes every check.
WellFormedParty(e) ==
    [f \in PartyFields(e) |->
        CASE f \in {"PK", "GSI1SK"} -> Str(EntityPrefix(e), "1")
          [] f = "SK" -> Str("", IF e = "buyers" THEN "#METADATA#buyer"
                                                 ELSE "#METADATA#producer")
          [] f = "Status" -> Str("", "ACTIVE")
          [] f = "GSI1PK" -> Str("", IF e = "buyers" THEN "BUYERS" ELSE "PRODUCERS")
          [] OTHER -> Str("", "1")]

\* The records of the files: one that is valid, one that is valid with a
\* warning (sales), one that is invalid and one on which the validation raises.
Samples(e) ==
    IF e = "sales"
    THEN {WellFormed, [WellFormed EXCEPT !["Total"] = Num(999000)],
          [WellFormed EXCEPT !["Total"] = Num(-5000)],
          [WellFormed EXCEPT !["Total"] = Str("", "abc")]}
    ELSE {WellFormedParty(e), [WellFormedParty(e) EXCEPT !["Name"] = NoField],
          [WellFormedParty(e) EXCEPT !["PK"] = Num(5)]}

\* A file of the data directory: absent, not JSON, JSON that is no array, or
\* an array of records.
Files(e) ==
    {[st |-> x, records |-> <<>>] : x \in {"missing", "notjson", "notlist"}} \cup
    {[st |-> "list", records |-> rs] :
        rs \in UNION {[1..n -> Samples(e)] : n \in 0..MaxRecords}}

\* MigrationValidator(): __init__; no report made yet.
NewValidator ==
    [stats |-> [e \in EntitySet |-> [count |-> 0, valid |-> 0, invalid |-> 0]],
     errors |-> <<>>, warnings |-> <<>>, pc |-> "open", calls |-> 0, report |-> None]

\* The body of the loop over the records: the record is counted, validated,
\* and counted as valid or invalid; an exception of the validation leaves the
\* loop and validate_file.
for_record(v, e, rec) ==
    LET counted == [v EXCEPT !.stats[e].count = @ + 1]
        res == IF e = "sales"
               THEN validate_sale(rec, Mismatch(rec) > Tolerance)
               ELSE validate_party(rec, e)
        logged == [counted EXCEPT !.errors = @ \o res.errors,
                                  !.warnings = @ \o res.warnings]
    IN  CASE res.outcome = "raised" -> [logged EXCEPT !.pc = "aborted"]
          [] res.outcome = "valid" -> [logged EXCEPT !.stats[e].valid = @ + 1]
          [] res.outcome = "invalid" -> [logged EXCEPT !.stats[e].invalid = @ + 1]

RECURSIVE for_records(_, _, _)
for_records(v, e, recs) ==
    IF recs = <<>> \/ v.pc = "aborted"
    THEN v
    ELSE for_records(for_record(v, e, Head(recs)), e, Tail(recs))

\* validate_file(file_path, entity_type)
validate_file_of(v, e, file) ==
    CASE file.st = "missing" ->
            [v EXCEPT !.warnings = Append(@, <<"File not found", e>>)]
      [] file.st = "notjson" ->
            [v EXCEPT !.errors = Append(@, <<"Invalid JSON", e>>)]
      [] file.st = "notlist" ->
            [v EXCEPT !.errors = Append(@, <<"Expected array of records", e>>)]
      [] file.st = "list" -> for_records(v, e, file.records)

Sum(f) == f["buyers"] + f["producers"] + f["sales"]

\* main(): report['summary']['invalidRecords'] == 0 and ...['errorCount'] == 0
passed(summary) == summary.invalidRecords = 0 /\ summary.errorCount = 0

\* generate_report(): the summary; main() adds the verdict.
generate_report(v) ==
    LET summary ==
            [totalRecords |-> Sum([e \in EntitySet |-> v.stats[e].count]),
             validRecords |-> Sum([e \in EntitySet |-> v.stats[e].valid]),
             invalidRecords |-> Sum([e \in EntitySet |-> v.stats[e].invalid]),
             errorCount |-> Len(v.errors),
             warningCount |-> Len(v.warnings)]
    IN  [summary |-> summary, statistics |-> v.stats, errors |-> v.errors,
         warnings |-> v.warnings, passed |-> passed(summary)]

ReportInit ==
    /\ OrchestratorIdle
    /\ LoaderIdle
    /\ TransformerIdle
    /\ raw_status = <<>>
    /\ status = <<>>
    /\ line = <<>>
    /\ derived = <<>>
    /\ sale = <<>>
    /\ result = <<>>
    /\ validator = NewValidator

ReportFrame ==
    UNCHANGED <<orchestratorVars, loaderVars, transformVars, raw_status, status, line,
                derived, sale, result>>

\* One call of validate_file for an entity, on whatever the file holds.
validate_file ==
    /\ validator.pc = "open"
    /\ validator.calls < MaxCalls
    /\ \E e \in EntitySet : \E file \in Files(e) :
          validator' = validate_file_of([validator EXCEPT !.calls = @ + 1], e, file)
    /\ ReportFrame

\* main(): the report is generated and saved, the verdict printed, the
\* process exits.
report ==
    /\ validator.pc = "open"
    /\ validator' = [validator EXCEPT !.report = Some(generate_report(validator)),
                                      !.pc = "exited"]
    /\ ReportFrame

ReportNext ==
    \/ validate_file
    \/ report

SpecReport == ReportInit /\ [][ReportNext]_vars

----------------------------------------------------------------------------
\* Reading the history

\* The phases whose run_<phase> was entered in this invocation, in order.
PhasesStarted ==
    LET begins == SelectSeq(trace, LAMBDA ev : ev[2] = "begin")
    IN [i \in 1..Len(begins) |-> begins[i][1]]

\* The steps (phase, entity) begun in this invocation.
StepsBegun == {ev \in Range(trace) : ev[2] # "begin"}

\* The steps of this invocation that returned and whose checkpoint was saved.
StepsCompleted ==
    StepsBegun \ (IF pc \in {"step", "save", "dump", "failed", "interrupted"}
                     /\ phase \in StepPhases /\ ents # <<>>
                  THEN {<<phase, ent>>} ELSE {})

Last(seq) == seq[Len(seq)]

----------------------------------------------------------------------------
\* C1: resume() with a non-empty checkpoint calls, in the order extract,
\* transform, validate, load, exactly the phases without a key in the
\* checkpoint it loaded (a phase that raises ends the sequence there), and
\* none of the phases with a key; with an empty checkpoint it runs run_full,
\* which starts at extract.
C1_Missing ==
    SelectSeq(<<"extract", "transform", "validate", "load">>,
              LAMBDA p : p \notin DOMAIN start.checkpoint)

C1_ResumeRunsMissingPhases ==
    args.cmd = "resume" /\ frame # "none" =>
        IF start.checkpoint # EmptyCheckpoint
        THEN /\ frame = "resume"
             /\ IsPrefix(PhasesStarted, C1_Missing)
             /\ pc = "done" => PhasesStarted = C1_Missing
        ELSE /\ frame = "run_full"
             /\ PhasesStarted # <<>> => PhasesStarted[1] = "extract"
             /\ pc = "done" =>
                   \/ PhasesStarted = <<"extract", "transform", "validate", "load">>
                   \/ PhasesStarted = <<"extract", "transform", "validate", "load",
                                        "verify">>

\* extract and transform checkpointed, validate and load not: validate, then load.
C1_Witness ==
    /\ args.cmd = "resume"
    /\ DOMAIN start.checkpoint = {"extract", "transform"}
    /\ ~dry_run
    /\ pc = "done"
    /\ PhasesStarted = <<"validate", "load">>
    /\ <<"load", "sales">> \in StepsBegun

----------------------------------------------------------------------------
\* C2: resume() starts at the first phase, in pipeline order, that is not
\* checkpointed for every one of its entities: a phase whose entry lists only
\* some of the entities is executed again before any later phase.
C2_FullyCheckpointed(p) ==
    /\ p \in DOMAIN start.checkpoint
    /\ EntitySet \subseteq DOMAIN start.checkpoint[p]

C2_ResumeStartsAtFirstIncompletePhase ==
    frame = "resume" /\ PhasesStarted # <<>> =>
        LET first == PhasesStarted[1]
        IN /\ ~C2_FullyCheckpointed(first)
           /\ \A i \in 1..Len(Phases) :
                 (\E j \in 1..Len(Phases) : j > i /\ Phases[j] = first)
                     => C2_FullyCheckpointed(Phases[i])

----------------------------------------------------------------------------
\* C3: in run_full() the phases start in the order extract, transform,
\* validate, load, verify; inside extract, transform and load the entities run
\* in the order buyers, producers, sales; a phase starts only after the
\* previous one finished for all its entities; once a step raises nothing
\* further is executed and the run ends in failure.
C3_Steps(p) == <<<<p, "begin">>, <<p, "buyers">>, <<p, "producers">>, <<p, "sales">>>>

C3_FullTrace ==
    C3_Steps("extract") \o C3_Steps("transform") \o <<<<"validate", "begin">>>>
        \o C3_Steps("load") \o <<<<"verify", "begin">>>>

C3_DryTrace ==
    <<<<"extract", "begin">>, <<"transform", "begin">>, <<"validate", "begin">>,
      <<"load", "begin">>, <<"verify", "begin">>>>

C3_InOrder ==
    frame = "run_full" =>
        /\ IsPrefix(trace, IF dry_run THEN C3_DryTrace ELSE C3_FullTrace)
        /\ pc = "done" => Len(trace) >= (IF dry_run THEN 4 ELSE 13)
        /\ FailedInStep => Last(trace) = <<phase, ent>>

C3_RunFullOrderAndAbort ==
    /\ []C3_InOrder
    /\ [][pc = "failed" => runs' = runs + 1 /\ trace' = <<>>]_vars

C3_Witness ==
    /\ frame = "run_full"
    /\ FailedInStep
    /\ trace = C3_Steps("extract") \o C3_Steps("transform") \o <<<<"validate", "begin">>>>
                  \o <<<<"load", "begin">>, <<"load", "buyers">>, <<"load", "producers">>>>

----------------------------------------------------------------------------
\* C4: when run_full() completes every phase the persisted checkpoint is
\* deleted; when it fails the persisted checkpoint is not deleted and holds
\* every entry saved before the failure.
C4_ClearedOnSuccessKeptOnFailure ==
    frame = "run_full" =>
        /\ pc = "done" => checkpoint_file.st = "absent"
        /\ pc = "failed" =>
              /\ start.file.st # "absent" => checkpoint_file.st # "absent"
              /\ Entries(start.file.data) \subseteq Entries(checkpoint_file.data)
              /\ config.checkpointEnabled =>
                    \A ev \in StepsCompleted :
                        /\ checkpoint_file.st = "ok"
                        /\ ev \in Entries(checkpoint_file.data)
                        /\ checkpoint_file.data[ev[1]][ev[2]] = source[ev[2]]

\* A full run that saved all nine entries and then removed the file.
C4_Witness ==
    /\ frame = "run_full"
    /\ pc = "done"
    /\ config.checkpointEnabled
    /\ ~dry_run
    /\ Cardinality(Entries(checkpoint)) = 9
    /\ checkpoint_file.st = "absent"

----------------------------------------------------------------------------
\* C5: the checkpoint is cleared on full successful completion also when it is
\* reached through resume(): after a resume() from a non-empty checkpoint that
\* runs every remaining phase through load, no persisted checkpoint remains.
C5_ResumeCompletionClearsCheckpoint ==
    frame = "resume" /\ pc = "done" /\ <<"load", "sales">> \in StepsCompleted
        => checkpoint_file.st = "absent"

----------------------------------------------------------------------------
\* C6: an entry (phase, entity) is present in the checkpoint, in memory or
\* persisted, only if that phase's step for that entity returned normally; no
\* entry is written for a step that failed, was interrupted or was skipped by
\* a dry run.
C6_EntriesOnlyForCompletedSteps ==
    /\ Entries(checkpoint) \subseteq succeeded
    /\ Entries(checkpoint_file.data) \subseteq succeeded
    /\ dry_run => checkpoint = start.checkpoint
    /\ pc \in {"failed", "interrupted"} /\ phase \in StepPhases /\ ents # <<>>
          /\ interruptedAt \in {"none", "step"}
          => (<<phase, ent>> \in Entries(checkpoint_file.data)
                 => <<phase, ent>> \in Entries(start.file.data))

\* A run stopped by a failing step, with earlier entries persisted and none
\* for the failed step.
C6_Witness ==
    /\ FailedInStep
    /\ Entries(checkpoint_file.data) # {}
    /\ <<phase, ent>> \notin Entries(checkpoint_file.data)

----------------------------------------------------------------------------
\* C7 (as claimed): if the step for entity e fails inside extract, transform
\* or load, the persisted checkpoint holds an entry for every entity of that
\* phase that succeeded before e in this run, and a following resume() does
\* not execute that phase's step again for those entities.
C7_Recorded ==
    FailedInStep => \A e \in DoneBefore : <<phase, e>> \in Entries(checkpoint_file.data)

C7_NotRedone ==
    args.cmd = "resume" => \A e \in prev.done : <<prev.phase, e>> \notin StepsBegun

C7_CompletedEntitiesRecordedAndNotRedone == C7_Recorded /\ C7_NotRedone

\* C7 (amended): the same, when checkpointing is enabled in the configuration.
C7_WithCheckpointingEnabled ==
    config.checkpointEnabled => C7_Recorded /\ C7_NotRedone

\* A resume() after a run that failed in the extraction of sales, buyers and
\* producers being done: it is transforming, and has extracted nothing again.
C7_Witness ==
    /\ config.checkpointEnabled
    /\ args.cmd = "resume"
    /\ ~dry_run
    /\ prev.phase = "extract"
    /\ prev.done = {"buyers", "producers"}
    /\ <<"transform", "producers">> \in StepsBegun

----------------------------------------------------------------------------
\* C8: a user interrupt arriving while a phase step for one entity is
\* executing leaves the persisted checkpoint equal to its value when that step
\* began, and no further entity or phase is executed after the interrupt.
C8_CheckpointAsAtStepBegin ==
    /\ pc = "step" => checkpoint_file = atStep
    /\ pc = "interrupted" /\ interruptedAt = "step" => checkpoint_file = atStep

C8_InterruptLeavesCheckpoint ==
    /\ []C8_CheckpointAsAtStepBegin
    /\ [][pc = "interrupted" => runs' = runs + 1 /\ trace' = <<>>]_vars

\* The load of sales interrupted, eight entries persisted.
C8_Witness ==
    /\ pc = "interrupted"
    /\ interruptedAt = "step"
    /\ phase = "load"
    /\ ent = "sales"
    /\ Cardinality(Entries(checkpoint_file.data)) = 8

----------------------------------------------------------------------------
\* C9: with continueOnError enabled, a failure of the extract, transform or
\* load step for one entity does not stop the run: the orchestrator proceeds
\* to the next entity of the phase.
C9_ContinueOnErrorProceeds ==
    config.continueOnError => ~FailedInStep

----------------------------------------------------------------------------
\* C10: in run_full() and resume() a load step runs only if validation
\* reported passed or continueOnError is set (the load phase is entered
\* otherwise only by a dry run, which validates and loads nothing); when
\* validation does not pass and continueOnError is not set the run fails in
\* run_validate, no load is executed and the target is not written; with
\* continueOnError set a failed validation does not stop the run.
C10_LoadAllowed ==
    \/ validation = "passed"
    \/ validation = "failed" /\ config.continueOnError

----------------------------------------------------------------------------
\* C11: in dry-run mode no step of any orchestrator operation (run_full,
\* resume or a single phase) changes the persisted checkpoint file, the
\* extracted or transformed artifacts or the target tables: they stay as
\* they were when the operation started.
C11_DryRunChangesNothing ==
    [][dry_run /\ pc \in Running =>
          UNCHANGED <<checkpoint_file, extracted, transformed, target>>]_vars

----------------------------------------------------------------------------
\* C12: for n items and a configured batch size b >= 1 the loader writes
\* ceil(n / min(b, 25)) consecutive chunks, each of exactly min(b, 25) items
\* except possibly the last, never more than 25 items in one chunk, and the
\* chunks in write order concatenate to the input sequence; 53 items with
\* batch size 25 are written as chunks of 25, 25 and 3.
RECURSIVE C12_Concat(_)
C12_Concat(ss) == IF ss = <<>> THEN <<>> ELSE Head(ss) \o C12_Concat(Tail(ss))

C12_CeilDiv(a, b) == (a + b - 1) \div b

C12_ChunkLens == [k \in 1..Len(chunks) |-> Len(chunks[k])]

C12_ConsecutiveFixedSizeChunks ==
    LET n == Len(all_items)
        c == Min(batch_size, 25)
    IN  /\ \A k \in 1..Len(chunks) :
              /\ C12_ChunkLens[k] >= 1
              /\ C12_ChunkLens[k] <= 25
              /\ k < Len(chunks) => C12_ChunkLens[k] = c
              /\ C12_ChunkLens[k] # c => offset >= n
        /\ C12_Concat(chunks) = SubSeq(all_items, 1, Len(C12_Concat(chunks)))
        /\ lpc = "done" =>
              /\ Len(chunks) = C12_CeilDiv(n, c)
              /\ C12_Concat(chunks) = all_items
              /\ n = 53 /\ batch_size = 25 => C12_ChunkLens = <<25, 25, 3>>

\* 53 items with batch size 25, all written.
C12_Witness ==
    /\ lpc = "done"
    /\ Len(all_items) = 53
    /\ batch_size = 25
    /\ C12_ChunkLens = <<25, 25, 3>>

----------------------------------------------------------------------------
\* C13: running the loader again over the same transformed file is an
\* idempotent overwrite: whenever a run completes, also after an earlier run
\* that stopped at a failed chunk, the table holds exactly the items of the
\* file, each once, as after one successful load.
C13_ReloadIsIdempotentOverwrite ==
    /\ \A x \in BagToSet(table) : CopiesIn(x, table) = 1
    /\ lpc = "done" => table = SetToBag(Range(all_items))

\* A second run completes after a first one that failed at a later chunk.
C13_Witness ==
    /\ lpc = "done"
    /\ outcomes = <<[ok |-> FALSE, wrote |-> TRUE], [ok |-> TRUE, wrote |-> TRUE]>>
    /\ Len(chunks) >= 3

----------------------------------------------------------------------------
\* C14: the key of an item is a pure function of the transform input:
\* transforming the same records again yields, record for record, the same
\* PK and SK, so that loading the redone transform overwrites the items
\* already in the target and the target never holds two items made from the
\* same source record.
C14_Keys(its) == [i \in 1..Len(its) |-> Key(its[i])]

C14_KeyIsPureFunctionOfInput ==
    /\ \A r \in 1..Len(before) : C14_Keys(before[r]) = C14_Keys(out_items)
    /\ \A x, y \in BagToSet(table) : x.origin = y.origin => x = y

----------------------------------------------------------------------------
\* C15: among the items of one transform run, entity items and line items
\* together, no two distinct items have the same (PK, SK), whatever the line
\* numbers of the source lines (equal, zero or missing).
C15_NoTwoItemsShareKey ==
    \A a, b \in 1..Len(out_items) : a # b => Key(out_items[a]) # Key(out_items[b])

----------------------------------------------------------------------------
\* C16: in every item a transformer produces, PK is the prefix of the
\* item's entity ("BUYER#", "PRODUCER#", "SALE#") followed by the surrogate
\* id the item carries; SK is exactly "METADATA" in an entity item and begins
\* with "LINE#" in a sale-line item.
C16_Prefix ==
    [buyers |-> "BUYER#", producers |-> "PRODUCER#", sales |-> "SALE#"]

C16_KeyFormat ==
    \A i \in 1..Len(out_items) :
        LET item == out_items[i]
        IN  /\ item.PK = <<C16_Prefix[kind], item.entityId>>
            /\ item.origin[2] = 0 => item.SK = <<"METADATA">>
            /\ item.origin[2] # 0 => Len(item.SK) = 2 /\ item.SK[1] = "LINE#"

\* Two sales with two lines each, transformed by the pipeline.
C16_Witness ==
    /\ impl = "pipeline"
    /\ kind = "sales"
    /\ passes >= 1
    /\ Len(out_items) = 6

----------------------------------------------------------------------------
\* C17: transforming N sales that carry M lines in total yields N metadata
\* items and M line items; the PK of every line item is the PK of the
\* metadata item of the sale it came from, and linesCount of every metadata
\* item is the number of line items produced for its sale.
C17_Meta == {i \in 1..Len(out_items) : out_items[i].origin[2] = 0}

C17_Lines == {i \in 1..Len(out_items) : out_items[i].origin[2] # 0}

C17_LinesOf(m) == {i \in C17_Lines : out_items[i].origin[1] = out_items[m].origin[1]}

C17_CountsAndParents ==
    passes >= 1 /\ kind = "sales" =>
        /\ Cardinality(C17_Meta) = Len(records)
        /\ Cardinality(C17_Lines) = Len(Flatten([k \in 1..Len(records) |-> records[k].lines]))
        /\ \A k \in 1..Len(records) :
              \E m \in C17_Meta :
                  /\ out_items[m].origin = <<k, 0>>
                  /\ Cardinality(C17_LinesOf(m)) = Len(records[k].lines)
        /\ \A m \in C17_Meta :
              /\ out_items[m].linesCount = Some(Cardinality(C17_LinesOf(m)))
              /\ \A i \in C17_LinesOf(m) : out_items[i].PK = out_items[m].PK

\* A sale with two lines and a sale with one line, transformed by the script.
C17_Witness ==
    /\ impl = "script"
    /\ kind = "sales"
    /\ passes >= 1
    /\ Len(records) = 2
    /\ Len(records[1].lines) = 2
    /\ Len(records[2].lines) = 1
    /\ Cardinality(C17_Lines) = 3

----------------------------------------------------------------------------
\* C18: sale status normalization maps every source token to one of draft,
\* confirmed, invoiced, paid, cancelled; a token listed in the mapping table
\* maps to its table entry whatever its letter case, and an unrecognized or
\* absent token maps to "confirmed"; the status of a buyer or producer is
\* always "active" or "inactive".
C18_ClosedStatuses == {"draft", "confirmed", "invoiced", "paid", "cancelled"}

C18_Table == IF impl = "pipeline" THEN mapping ELSE STATUS_MAP

C18_Listed ==
    raw_status.t = "str" /\ ~raw_status.padded /\ raw_status.word \in DOMAIN C18_Table

C18_UnrecognizedOrAbsent ==
    \/ raw_status.t \in {"missing", "none"}
    \/ raw_status.t = "str" /\ raw_status.word \notin DOMAIN C18_Table

C18_StatusNormalization ==
    status # None =>
        IF kind = "sales"
        THEN /\ status[1] \in C18_ClosedStatuses
             /\ C18_Listed => status[1] = C18_Table[raw_status.word]
             /\ C18_UnrecognizedOrAbsent => status[1] = "confirmed"
        ELSE status[1] \in {"active", "inactive"}

----------------------------------------------------------------------------
\* C19: the sale-line derivation is idempotent: for every line without
\* source-supplied amounts (the extractor hands them on as absent or as 0),
\* deriving again from the derived output yields the
\* same discountAmount, netAmount, taxAmount and totalAmount, also when a
\* derived amount is zero.
C19_Amounts(o) == <<o.discountAmount, o.netAmount, o.taxAmount, o.totalAmount>>

C19_Lacking(x) == x \in {None, Some(0)}

C19_NoSuppliedAmounts ==
    /\ C19_Lacking(line.discount_amount)
    /\ C19_Lacking(line.net_amount)
    /\ C19_Lacking(line.tax_amount)
    /\ C19_Lacking(line.total_amount)

C19_DerivationIsIdempotent ==
    C19_NoSuppliedAmounts =>
        \A i \in 1..Len(derived) : C19_Amounts(derived[i]) = C19_Amounts(derived[1])

\* A line discounted by 100 %: a positive discount amount, the other three
\* amounts derived as zero, derived a second time from the output.
C19_Witness ==
    /\ C19_NoSuppliedAmounts
    /\ Len(derived) >= 2
    /\ derived[1].discountAmount > 0
    /\ derived[1].netAmount = 0
    /\ derived[1].totalAmount = 0

----------------------------------------------------------------------------
\* C20: validate_sale counts a sale as valid exactly when none of its error
\* checks fails (required field present, PK prefix, SK literal, status in
\* the enum, numeric fields numeric and non-negative, dates parseable, GSI
\* prefixes); any failed check appends at least one error and makes the
\* record invalid (Total = -5 gives a "cannot be negative" error); a
\* difference |Total - (Subtotal - Discount + Tax)| above 0.01 appends one
\* warning and never changes validity (100, 0, 22, 122 gives no warning;
\* Total 999 gives a warning and the record stays valid).
C20_HasPrefix(f, prefix) == sale[f].t = "str" /\ sale[f].pre = prefix

C20_Numeric(f) == sale[f].t = "num"

C20_Parseable(f) ==
    /\ sale[f].t = "str"
    /\ sale[f].s \in {"2024-01-01", "2024-01-01T00:00:00Z", "2024-01-01T00:00:00+00:00"}

C20_CheckFails ==
    \/ \E f \in Range(required_fields) : ~Has(sale, f) \/ Falsy(sale[f])
    \/ Has(sale, "PK") /\ ~C20_HasPrefix("PK", "SALE#")
    \/ Has(sale, "SK") /\ sale["SK"] # Str("", "#METADATA#sale")
    \/ Has(sale, "Status") /\ (sale["Status"].t # "str" \/ sale["Status"].s \notin valid_statuses)
    \/ \E f \in Range(numeric_fields) :
          Has(sale, f) /\ (~C20_Numeric(f) \/ sale[f].n < 0)
    \/ \E f \in Range(date_fields) :
          Has(sale, f) /\ ~Falsy(sale[f]) /\ ~C20_Parseable(f)
    \/ \E i \in 1..Len(gsi_fields) :
          Has(sale, gsi_fields[i]) /\ ~C20_HasPrefix(gsi_fields[i], gsi_prefixes[i])

C20_Is(f, v) == sale = [WellFormed EXCEPT ![f] = v]

C20_ValidExactlyWhenNoCheckFails ==
    result.outcome # "none" =>
        /\ result.outcome = "valid" <=> ~C20_CheckFails
        /\ C20_CheckFails => result.errors # <<>> /\ result.outcome = "invalid"
        /\ (\A f \in Range(numeric_fields) : C20_Numeric(f)) /\ Mismatch(sale) > Tolerance
              => Len(result.warnings) = 1
        /\ sale = WellFormed => result = [Unvalidated EXCEPT !.outcome = "valid"]
        /\ C20_Is("Total", Num(999000)) =>
              /\ Len(result.warnings) = 1
              /\ result.outcome = "valid"
        /\ C20_Is("Total", Num(-5000)) =>
              /\ <<"cannot be negative", "Total">> \in Range(result.errors)
              /\ result.outcome = "invalid"

----------------------------------------------------------------------------
\* C21: after any sequence of validate_file calls, for every entity
\* count = valid + invalid; the report's totalRecords, validRecords and
\* invalidRecords are the sums over the entities, errorCount and warningCount
\* are the lengths of the error and warning lists; the verdict is pass exactly
\* when errorCount = 0 and invalidRecords = 0, so warnings alone (a missing
\* input file included) never make the verdict fail.
C21_CountsAddUp ==
    \A e \in EntitySet :
        validator.stats[e].count = validator.stats[e].valid + validator.stats[e].invalid

C21_ReportAggregates ==
    validator.report # None =>
        LET rep == validator.report[1]
        IN  /\ rep.summary.totalRecords = Sum([e \in EntitySet |-> validator.stats[e].count])
            /\ rep.summary.validRecords = Sum([e \in EntitySet |-> validator.stats[e].valid])
            /\ rep.summary.invalidRecords =
                  Sum([e \in EntitySet |-> validator.stats[e].invalid])
            /\ rep.summary.errorCount = Len(validator.errors)
            /\ rep.summary.warningCount = Len(validator.warnings)
            /\ rep.passed <=> (rep.summary.errorCount = 0 /\ rep.summary.invalidRecords = 0)
            /\ validator.errors = <<>> /\ rep.summary.invalidRecords = 0 => rep.passed

C21_StatsAndVerdict == C21_CountsAddUp /\ C21_ReportAggregates

----------------------------------------------------------------------------
\* C22: the four amounts of a sale line are derived only when the source did
\* not supply them: every supplied value, a supplied 0 included, appears
\* unchanged in the line item, and the default tax rate of 22 is used only
\* when no tax rate was supplied (a supplied tax rate of 0 stays 0).
C22_Kept(supplied, produced) == supplied # None => produced = supplied[1]

C22_SuppliedValuesUnchanged ==
    derived # <<>> =>
        /\ C22_Kept(line.discount_amount, derived[1].discountAmount)
        /\ C22_Kept(line.net_amount, derived[1].netAmount)
        /\ C22_Kept(line.tax_amount, derived[1].taxAmount)
        /\ C22_Kept(line.total_amount, derived[1].totalAmount)
        /\ C22_Kept(line.tax_rate, derived[1].taxRate)
        /\ derived[1].taxRate = 22 /\ line.tax_rate # Some(22) => line.tax_rate = None

----------------------------------------------------------------------------
\* The attributes of the items: transform() of transform_buyers.py,
\* transform_producers.py and transform_sales.py ("pipeline") over the
\* canonical records; transform_buyers, transform_producers and
\* transform_sales of migrate_to_dynamodb.py ("script") over the source rows.
\* A record and an item are functions from names to values, with the values
\* of the validator; the status field of a record holds a status token.  Of
\* the attributes that are resolved in one and the same way, one is modelled:
\* vatNumber stands for the attributes resolved with "or None" (pipeline) or
\* safe_str(...) (script), address for those resolved with "or ''", country
\* for those with a default.

MaxBlanks == 1

Empty == Str("", "")
Blank == Str("", " ")

\* _now_iso(), now[:10] and NOW_ISO
now == "2024-01-01T00:00:00+00:00"
today == "2024-01-01"
NOW_ISO == "2024-01-01T00:00:00Z"

\* rec.get(f) or default
get_or_else(rec, f, default) == IF ~Has(rec, f) \/ Falsy(rec[f]) THEN default ELSE rec[f]

\* str(v) and float(v) of a number or a string
str_value(v) == IF v.t = "num" THEN Str("", ToString(v.n)) ELSE v

\* safe_str(rec.get(f), default)
safe_str_of(rec, f, default) ==
    IF rec[f].t \in {"missing", "none"} THEN Str("", default)
    ELSE IF rec[f] = Blank THEN Empty
    ELSE str_value(rec[f])

\* safe_float(rec.get(f))
safe_float_of(rec, f) == IF rec[f].t \in {"missing", "none"} THEN Num(0) ELSE rec[f]

\* {k: v for k, v in item.items() if v is not None}
prune_none(item) == [a \in {b \in DOMAIN item : item[b] # NullValue} |-> item[a]]

\* {k: v for k, v in item.items() if v != ""}
prune_empty(item) == [a \in {b \in DOMAIN item : item[b] # Empty} |-> item[a]]

\* for req in (...): if req not in item: item[req] = ""
require(item, req) ==
    [a \in DOMAIN item \cup req |-> IF a \in DOMAIN item THEN item[a] ELSE Empty]

\* for k in optional_keys: if sale_item.get(k) == "": del sale_item[k]
delete_empty(item, optional_keys) ==
    [a \in {b \in DOMAIN item : ~(b \in optional_keys /\ item[b] = Empty)} |-> item[a]]

\* d.get(k, default) of an item
attribute_or(item, a, default) == IF a \in DOMAIN item THEN item[a] ELSE default

id_attribute(e) ==
    CASE e = "buyers" -> "buyerId"
      [] e = "producers" -> "producerId"
      [] e = "sales" -> "saleId"

\* str(uuid.uuid4()) for record k of the entity
uuid4_of(e, k) == "uuid-" \o e \o "-" \o ToString(k)

audit(created_at, updated_at) ==
    ("createdAt" :> created_at) @@ ("updatedAt" :> updated_at) @@
    ("createdBy" :> Str("", "migration")) @@ ("updatedBy" :> Str("", "migration"))

\* transform_buyers.py, transform_producers.py: the item of record b
party_item(e, b, id) ==
    prune_none(
        ("PK" :> Str(EntityPrefix(e), id)) @@
        ("SK" :> Str("", "METADATA")) @@
        (id_attribute(e) :> Str("", id)) @@
        ("code" :> str_value(get_or_else(b, "code", get_or_else(b, "first_id", Empty)))) @@
        ("companyName" :> get_or_else(b, "name", Empty)) @@
        ("vatNumber" :> get_or_else(b, "vat_number", NullValue)) @@
        ("address" :> get_or_else(b, "address", Empty)) @@
        ("country" :> get_or_else(b, "country", Str("", "IT"))) @@
        ("status" :> Str("", IF Truthy(get_or(b["enabled"], Flag(TRUE)))
                             THEN "active" ELSE "inactive")) @@
        audit(get_or_else(b, "created_at", Str("", now)),
              get_or_else(b, "updated_at", Str("", now))) @@
        ("_s9Id" :> str_value(get_or_else(b, "first_id", Empty))))

\* transform_sales.py: the sale item of record s
sale_item(s, id) ==
    prune_none(
        ("PK" :> Str("SALE#", id)) @@
        ("SK" :> Str("", "METADATA")) @@
        ("saleId" :> Str("", id)) @@
        ("saleDate" :> get_or_else(s, "sale_date", Str("", today))) @@
        ("buyerId" :> get_or_else(s, "buyer_id", Empty)) @@
        ("buyerName" :> get_or_else(s, "buyer_name", Empty)) @@
        ("producerId" :> get_or_else(s, "producer_id", Empty)) @@
        ("producerName" :> get_or_else(s, "producer_name", Empty)) @@
        ("subtotal" :> get_or_else(s, "subtotal", Num(0))) @@
        ("taxAmount" :> get_or_else(s, "tax_amount", Num(0))) @@
        ("total" :> get_or_else(s, "total", Num(0))) @@
        ("notes" :> get_or_else(s, "notes", NullValue)) @@
        ("currency" :> get_or_else(s, "currency", Str("", "EUR"))) @@
        ("status" :> Str("", map_status(get(s["status"])))) @@
        audit(get_or_else(s, "created_at", Str("", now)),
              get_or_else(s, "updated_at", Str("", now))) @@
        ("_s9Id" :> str_value(get_or_else(s, "first_id", Empty))))

required_of_party(e) ==
    {"PK", "SK", id_attribute(e), "companyName", "status", "createdAt", "updatedAt",
     "createdBy", "updatedBy", "GSI1PK", "GSI1SK", "GSI2PK", "GSI2SK"}

\* migrate_to_dynamodb.py transform_buyers, transform_producers: the item of
\* row b
script_party_item(e, b) ==
    LET bid == SurrogatePrefix(e) \o ToString(b["id"].n)
        country == safe_str_of(b, "country", "IT")
        st == map_buyer_status(get(b["status"]))
        company_name == safe_str_of(b, "name", "Unknown")
        item ==
            ("PK" :> Str(EntityPrefix(e), bid)) @@
            ("SK" :> Str("", "METADATA")) @@
            (id_attribute(e) :> Str("", bid)) @@
            ("companyName" :> company_name) @@
            ("vatNumber" :> safe_str_of(b, "vat", "")) @@
            ("address" :> safe_str_of(b, "address", "")) @@
            ("country" :> country) @@
            ("status" :> Str("", st)) @@
            ("totalSales" :> Num(0)) @@
            audit(Str("", NOW_ISO), Str("", NOW_ISO)) @@
            ("GSI1PK" :> Str("STATUS#", st)) @@
            ("GSI1SK" :> company_name) @@
            ("GSI2PK" :> Str("COUNTRY#", country.s)) @@
            ("GSI2SK" :> company_name)
    IN  require(prune_empty(item), required_of_party(e))

\* convert_reg_date(reg_date): an eight-digit number gives its date, None
\* and any other number give NOW_ISO[:10].
convert_reg_date(v) == IF v.t = "num" /\ v.n = 20230515 THEN "2023-05-15" ELSE today

optional_keys ==
    {"buyerVatNumber", "buyerAddress", "producerVatNumber", "producerAddress", "notes"}

\* The id a sale row refers to, as a key of buyers_dict or producers_dict:
\* the item made from the row of that id, or {}.
lookup_party(items, rows, ref) ==
    LET hits == {k \in 1..Len(rows) : ref.t = "num" /\ rows[k]["id"] = ref}
    IN  IF hits = {} THEN <<>> ELSE items[CHOOSE k \in hits : TRUE]

\* migrate_to_dynamodb.py transform_sales: the sale item of row s
script_sale_item(s, buyer, producer) ==
    LET sale_id == "SALE" \o ToString(s["id"].n)
        raw == safe_str(get(s["status"]), Token("new", "lower", FALSE))
        sale_status_value == map_sale_status(raw)
        sale_date == Str("", convert_reg_date(s["reg_date"]))
        ref(f, prefix) == IF Has(s, f) /\ ~Falsy(s[f])
                          THEN prefix \o ToString(s[f].n) ELSE ""
        buyer_id == ref("buyer_id", "BUYER")
        producer_id == ref("producer_id", "PROD")
        item ==
            ("PK" :> Str("SALE#", sale_id)) @@
            ("SK" :> Str("", "METADATA")) @@
            ("saleId" :> Str("", sale_id)) @@
            ("saleDate" :> sale_date) @@
            ("buyerId" :> Str("", buyer_id)) @@
            ("buyerName" :> attribute_or(buyer, "companyName", Empty)) @@
            ("buyerVatNumber" :> attribute_or(buyer, "vatNumber", Empty)) @@
            ("buyerAddress" :> attribute_or(buyer, "address", Empty)) @@
            ("buyerCountry" :> attribute_or(buyer, "country", Str("", "IT"))) @@
            ("producerId" :> Str("", producer_id)) @@
            ("producerName" :> attribute_or(producer, "companyName", Empty)) @@
            ("producerVatNumber" :> attribute_or(producer, "vatNumber", Empty)) @@
            ("producerAddress" :> attribute_or(producer, "address", Empty)) @@
            ("producerCountry" :> attribute_or(producer, "country", Str("", "IT"))) @@
            ("subtotal" :> safe_float_of(s, "amount")) @@
            ("taxAmount" :> safe_float_of(s, "vat")) @@
            ("total" :> safe_float_of(s, "total")) @@
            ("currency" :> safe_str_of(s, "currency", "EUR")) @@
            ("notes" :> safe_str_of(s, "sale_note", "")) @@
            ("status" :> Str("", sale_status_value)) @@
            audit(Str("", NOW_ISO), Str("", NOW_ISO)) @@
            ("GSI1PK" :> Str("STATUS#", sale_status_value)) @@
            ("GSI1SK" :> sale_date) @@
            ("GSI2PK" :> Str("BUYER#", buyer_id)) @@
            ("GSI2SK" :> sale_date) @@
            ("GSI3PK" :> Str("PRODUCER#", producer_id)) @@
            ("GSI3SK" :> sale_date) @@
            ("GSI4PK" :> Str("", "SALE")) @@
            ("GSI4SK" :> sale_date)
    IN  delete_empty(item, optional_keys)

\* The fields of a canonical record (pipeline) and of a source row (script).
SourceFields(i, e) ==
    CASE i = "pipeline" /\ e # "sales" ->
            {"first_id", "code", "name", "vat_number", "address", "country", "enabled",
             "created_at", "updated_at"}
      [] i = "pipeline" /\ e = "sales" ->
            {"first_id", "sale_date", "buyer_id", "buyer_name", "producer_id",
             "producer_name", "subtotal", "tax_amount", "total", "notes", "currency",
             "status", "created_at", "updated_at"}
      [] i = "script" /\ e # "sales" ->
            {"id", "name", "vat", "address", "country", "status"}
      [] i = "script" /\ e = "sales" ->
            {"id", "reg_date", "buyer_id", "producer_id", "amount", "vat", "total",
             "currency", "sale_note", "status"}

\* A record with every field supplied: the party of source id 1, and the
\* sale of source id 1 that refers to it.
Complete(i, e) ==
    [f \in SourceFields(i, e) |->
        CASE f \in {"id", "first_id", "buyer_id", "producer_id"} -> Num(1)
          [] f = "code" -> Str("", "C1")
          [] f \in {"name", "buyer_name", "producer_name"} -> Str("", "Acme")
          [] f \in {"vat_number", "address", "notes", "sale_note"} -> Str("", "x")
          [] f = "vat" -> IF e = "sales" THEN Num(22000) ELSE Str("", "x")
          [] f = "country" -> Str("", "DE")
          [] f = "currency" -> Str("", "USD")
          [] f = "enabled" -> Flag(TRUE)
          [] f = "status" ->
                IF e = "sales" THEN Token("paid", "lower", FALSE)
                ELSE Token("online", "lower", FALSE)
          [] f = "sale_date" -> Str("", "2023-05-15")
          [] f = "reg_date" -> Num(20230515)
          [] f \in {"created_at", "updated_at"} -> Str("", "2023-05-15T00:00:00+00:00")
          [] f \in {"subtotal", "amount"} -> Num(100000)
          [] f = "tax_amount" -> Num(22000)
          [] f = "total" -> Num(122000)]

\* The other values a field is given: the key missing (canonical records
\* only), None, '', a blank string, 0, a reference to no party.
Blanks(i, e, f) ==
    CASE f = "id" -> {}
      [] f = "first_id" -> {NullValue}
      [] f \in {"buyer_id", "producer_id"} -> {NullValue, Num(2)}
      [] f = "enabled" -> {NoKey, Flag(FALSE)}
      [] f = "status" ->
            IF e = "sales"
            THEN {Null, Token("", "lower", FALSE), Token("shipped", "lower", FALSE)}
            ELSE {Null, Token("offline", "lower", FALSE)}
      [] f \in {"subtotal", "amount", "tax_amount", "total", "reg_date"} \/
         (f = "vat" /\ e = "sales") -> {NullValue, Num(0)}
      [] OTHER -> (IF i = "pipeline" THEN {NoField} ELSE {}) \cup {NullValue, Empty, Blank}

\* The source data in which at most k fields are not supplied.
RECURSIVE Blanked(_, _)
Blanked(i, k) ==
    IF k = 0
    THEN {[e \in EntitySet |-> <<Complete(i, e)>>]}
    ELSE LET fewer == Blanked(i, k - 1)
         IN  fewer \cup
             UNION {UNION {{[d EXCEPT ![e][1][f] = v] : v \in Blanks(i, e, f)} :
                              f \in SourceFields(i, e)} :
                        d \in fewer, e \in EntitySet}

\* The item as validate_sale reads it: field in sale, sale[field]
View(item) == [f \in SaleFields |-> attribute_or(item, f, NoField)]

Transformed(e) == e \in DOMAIN out_items

ItemInit ==
    /\ OrchestratorIdle
    /\ LoaderIdle
    /\ impl \in Impls
    /\ kind = "sales"
    /\ records \in Blanked(impl, MaxBlanks)
    /\ out_items = <<>>
    /\ before = <<>>
    /\ passes = 0
    /\ raw_status = <<>>
    /\ status = <<>>
    /\ line = <<>>
    /\ derived = <<>>
    /\ sale = <<>>
    /\ result = Unvalidated
    /\ validator = <<>>

ItemFrame ==
    UNCHANGED <<orchestratorVars, loaderVars, impl, kind, records, before, passes,
                raw_status, status, line, derived, sale, validator>>

\* transform() of transform_buyers.py / transform_producers.py, or
\* transform_buyers / transform_producers of migrate_to_dynamodb.py, over the
\* records of the entity.
transform_party(e) ==
    /\ ~Transformed(e)
    /\ out_items' = out_items @@
          (e :> [k \in 1..Len(records[e]) |->
                    IF impl = "pipeline"
                    THEN party_item(e, records[e][k], uuid4_of(e, k))
                    ELSE script_party_item(e, records[e][k])])
    /\ result' = result
    /\ ItemFrame

transform_buyers == transform_party("buyers")

transform_producers == transform_party("producers")

\* transform() of transform_sales.py, or transform_sales of
\* migrate_to_dynamodb.py, which main() calls with the dictionaries that
\* transform_buyers and transform_producers returned.
transform_sales ==
    /\ ~Transformed("sales")
    /\ impl = "script" => Transformed("buyers") /\ Transformed("producers")
    /\ out_items' = out_items @@
          ("sales" :> [k \in 1..Len(records["sales"]) |->
              LET s == records["sales"][k]
              IN  IF impl = "pipeline"
                  THEN sale_item(s, uuid4_of("sales", k))
                  ELSE script_sale_item(s,
                          lookup_party(out_items["buyers"], records["buyers"],
                                       s["buyer_id"]),
                          lookup_party(out_items["producers"], records["producers"],
                                       s["producer_id"]))])
    /\ result' = result
    /\ ItemFrame

\* The validator reads the transformed sale item.
validate_transformed ==
    /\ impl = "pipeline"
    /\ DOMAIN out_items = EntitySet
    /\ result = Unvalidated
    /\ \E exceeds \in Exceeds(View(out_items["sales"][1])) :
          result' = validate_sale(View(out_items["sales"][1]), exceeds)
    /\ out_items' = out_items
    /\ ItemFrame

ItemNext ==
    \/ transform_buyers
    \/ transform_producers
    \/ transform_sales
    \/ validate_transformed

SpecItem == ItemInit /\ [][ItemNext]_vars

----------------------------------------------------------------------------
\* C23: in every item the transformers produce no attribute holds null, and
\* no optional attribute (any attribute other than PK, SK, the surrogate id,
\* status, the timestamps and createdBy/updatedBy) holds an empty string.
C23_Exempt(e) ==
    {"PK", "SK", id_attribute(e), "status", "createdAt", "updatedAt", "createdBy",
     "updatedBy"}

C23_Items == {<<e, k>> \in EntitySet \X (1..1) : Transformed(e) /\ k <= Len(out_items[e])}

C23_NoNull ==
    \A p \in C23_Items : \A a \in DOMAIN out_items[p[1]][p[2]] :
        out_items[p[1]][p[2]][a] # NullValue

C23_NoEmptyOptional ==
    \A p \in C23_Items : \A a \in DOMAIN out_items[p[1]][p[2]] \ C23_Exempt(p[1]) :
        out_items[p[1]][p[2]][a] # Empty

C23_NoNullNoEmptyOptional == C23_NoNull /\ C23_NoEmptyOptional

----------------------------------------------------------------------------
\* C24: for every transformed sale whose source buyer (producer) was also
\* transformed, the buyerId (producerId) of the sale item equals the buyerId
\* (producerId) of the item made from that buyer (producer).
C24_SourceKey == IF impl = "pipeline" THEN "first_id" ELSE "id"

C24_Reference(e) == IF e = "buyers" THEN "buyer_id" ELSE "producer_id"

C24_Refers(s, e, k) ==
    /\ s[C24_Reference(e)].t = "num"
    /\ records[e][k][C24_SourceKey] = s[C24_Reference(e)]

C24_RelationshipsPreserved ==
    \A e \in {"buyers", "producers"} :
        Transformed("sales") /\ Transformed(e) =>
            \A j \in 1..Len(records["sales"]), k \in 1..Len(records[e]) :
                C24_Refers(records["sales"][j], e, k) =>
                    out_items["sales"][j][id_attribute(e)] = out_items[e][k][id_attribute(e)]

----------------------------------------------------------------------------
\* load(config, progress) of load/load_sales.py, with dryRun off: the file of
\* transformed sales holds one record per sale, {sale, lines}; the loader
\* flattens the records into one list of items, writes the list in chunks
\* and counts the sales of each chunk it has written.  run_load of migrate.py
\* records the step in the checkpoint once load() has returned.

MaxChunk == 3       \* configured batchSize of the observed sales loader

\* The transformed file: the sale item of record k and its line items.
SaleItem(k) == [PK |-> k, SK |-> "METADATA"]
SaleLineItem(k, j) == [PK |-> k, SK |-> "LINE#" \o ToString(j)]

SaleRecords ==
    {[k \in 1..Len(f) |-> [sale |-> SaleItem(k),
                           lines |-> [j \in 1..f[k] |-> SaleLineItem(k, j)]]] :
        f \in UNION {[1..n -> 0..MaxLines] : n \in 0..MaxSales}}

\* for record in sale_records: all_items.append(record['sale']); for line in
\* record.get('lines', []): all_items.append(line)
flatten_records(recs) == Flatten([k \in 1..Len(recs) |-> <<recs[k].sale>> \o recs[k].lines])

\* Faulty variant: every item of the chunk is counted.
items_in_chunk(c) == Len(c)

\* sales_in_chunk = sum(1 for item in chunk if item.get('SK') == 'METADATA')
sales_in_chunk(c) == Len(SelectSeq(c, LAMBDA item : item.SK = "METADATA"))

SalesLoadInit ==
    /\ OrchestratorIdle
    /\ FieldsIdle
    /\ impl = "pipeline"
    /\ kind = "sales"
    /\ records \in SaleRecords
    /\ out_items = <<>>
    /\ before = <<>>
    /\ passes = 0
    /\ all_items = <<>>
    /\ batch_size \in 1..MaxChunk
    /\ offset = 0
    /\ chunks = <<>>
    /\ table = EmptyBag
    /\ lpc = "ready"
    /\ loads = 0
    /\ outcomes = <<>>
    /\ loaded_sales = 0

SalesLoaderFrame ==
    UNCHANGED <<source, config, args, dry_run, completed_phases, frame, pc, todo, phase,
                ents, count, extracted, transformed, target, validation, runs, trace,
                succeeded, start, atStep, interruptedAt, prev, extractor, impl, kind,
                records, out_items, passes, fieldVars, batch_size>>

\* load(config, progress) is called: the file is read; no record returns 0 at
\* once, otherwise the records are flattened and the loop starts at i = 0.
load_sales ==
    /\ lpc \in {"ready", "done", "saved", "failed"}
    /\ loads < MaxLoads
    /\ loads' = loads + 1
    /\ offset' = 0
    /\ chunks' = <<>>
    /\ loaded_sales' = 0
    /\ before' = table
    /\ UNCHANGED <<checkpoint, checkpoint_file>>
    /\ IF records = <<>>
       THEN /\ lpc' = "done"
            /\ all_items' = <<>>
            /\ outcomes' = Append(outcomes, [ok |-> TRUE, wrote |-> FALSE, returned |-> 0])
       ELSE /\ lpc' = "writing"
            /\ all_items' = flatten_records(records)
            /\ outcomes' = outcomes
    /\ table' = table
    /\ SalesLoaderFrame

\* One iteration of the loop: the chunk is written in one batch, then
\* progress and loaded_sales advance once per sale of the chunk.
write_sales_chunk ==
    /\ lpc = "writing"
    /\ offset < Len(all_items)
    /\ table' = batch_writer(table, chunk)
    /\ chunks' = Append(chunks, chunk)
    /\ loaded_sales' = loaded_sales + sales_in_chunk(chunk)
    /\ offset' = offset + chunk_size
    /\ UNCHANGED <<all_items, lpc, loads, outcomes, before, checkpoint, checkpoint_file>>
    /\ SalesLoaderFrame

\* Faulty variant: the failed run is rolled back.
write_sales_chunk_rolled_back ==
    /\ lpc = "writing"
    /\ offset < Len(all_items)
    /\ table' = before
    /\ lpc' = "failed"
    /\ outcomes' = Append(outcomes, [ok |-> FALSE, wrote |-> chunks # <<>>, returned |-> 0])
    /\ UNCHANGED <<all_items, offset, chunks, loads, loaded_sales, before, checkpoint,
                   checkpoint_file>>
    /\ SalesLoaderFrame

\* The batch write raises: the exception leaves load() before the sales of
\* the chunk are counted; the chunks written before stay written, and of the
\* failing chunk the items the store had accepted before the failure.
write_sales_chunk_fails ==
    /\ lpc = "writing"
    /\ offset < Len(all_items)
    /\ \E j \in 0..Min(Len(chunk) - 1, MaxPartial) :
          table' = batch_writer(table, SubSeq(chunk, 1, j))
    /\ lpc' = "failed"
    /\ outcomes' = Append(outcomes, [ok |-> FALSE, wrote |-> chunks # <<>>, returned |-> 0])
    /\ UNCHANGED <<all_items, offset, chunks, loads, loaded_sales, before, checkpoint,
                   checkpoint_file>>
    /\ SalesLoaderFrame

\* The loop is over: return loaded_sales.
load_sales_return ==
    /\ lpc = "writing"
    /\ offset >= Len(all_items)
    /\ lpc' = "done"
    /\ outcomes' =
          Append(outcomes, [ok |-> TRUE, wrote |-> chunks # <<>>, returned |-> loaded_sales])
    /\ UNCHANGED <<all_items, offset, chunks, table, loads, loaded_sales, before,
                   checkpoint, checkpoint_file>>
    /\ SalesLoaderFrame

\* run_load: count = load_sales.load(...) has returned, and
\* self.save_checkpoint('load', ent, count) follows.  An exception of load()
\* leaves run_load at the call, which no handler encloses.
save_load_checkpoint ==
    /\ lpc = "done"
    /\ lpc' = "saved"
    /\ checkpoint' = IF config.checkpointEnabled
                     THEN Merged(checkpoint, "load", "sales", Last(outcomes).returned)
                     ELSE checkpoint
    /\ checkpoint_file' = IF config.checkpointEnabled
                          THEN WrittenCheckpointFile(checkpoint')
                          ELSE checkpoint_file
    /\ UNCHANGED <<all_items, offset, chunks, table, loads, outcomes, loaded_sales, before>>
    /\ SalesLoaderFrame

SalesLoadNext ==
    \/ load_sales
    \/ write_sales_chunk
    \/ write_sales_chunk_fails
    \/ load_sales_return
    \/ save_load_checkpoint

SpecLoadSales == SalesLoadInit /\ [][SalesLoadNext]_vars

----------------------------------------------------------------------------
\* C25: when every chunk write succeeds, the sales loader advances its count
\* once per logical sale (per written item whose SK is "METADATA"), so the
\* count it returns equals the number of sale records, however the sale and
\* line items fall across the chunk boundaries.
C25_Written == Flatten(chunks)

C25_OncePerSale ==
    /\ lpc = "writing" =>
          loaded_sales = Cardinality({i \in 1..Len(C25_Written) :
                                         C25_Written[i].SK = "METADATA"})
    /\ lpc \in {"done", "saved"} =>
          /\ Last(outcomes).ok
          /\ Last(outcomes).returned = Len(records)
          /\ loaded_sales = Len(records)

\* Two sales with two lines each, written in chunks of three: the second
\* sale item ends a chunk and its lines fall into the next.
C25_Witness ==
    /\ lpc = "done"
    /\ Len(records) = 2
    /\ \A k \in 1..2 : Len(records[k].lines) = 2
    /\ batch_size = 3
    /\ Len(chunks) = 2
    /\ Last(outcomes).returned = 2

----------------------------------------------------------------------------
\* C26: the sales loader neither rolls back nor goes on after a failed batch
\* write: when the write of chunk k fails, the items of chunks 1..k-1 are in
\* the target table, nothing of a chunk after k has been written, the load
\* step has ended in an error, and run_load records no checkpoint entry
\* (load, sales) for it.
C26_Failing == Len(chunks) + 1

C26_ItemsUpTo(k) == Range(SubSeq(all_items, 1, Min(k * chunk_size, Len(all_items))))

C26_NoStepSucceeded == \A i \in 1..Len(outcomes) : ~outcomes[i].ok

C26_FailedChunkStopsTheLoad ==
    lpc = "failed" =>
        /\ C26_ItemsUpTo(C26_Failing - 1) \subseteq BagToSet(table)
        /\ BagToSet(table) \subseteq BagToSet(before) \cup C26_ItemsUpTo(C26_Failing)
        /\ ~Last(outcomes).ok
        /\ ~ENABLED write_sales_chunk
        /\ C26_NoStepSucceeded =>
              /\ <<"load", "sales">> \notin Entries(checkpoint)
              /\ checkpoint_file = AbsentCheckpointFile

\* The write of the second of three chunks fails in the first run: the first
\* chunk is stored, the third never written.
C26_Witness ==
    /\ lpc = "failed"
    /\ loads = 1
    /\ C26_Failing = 2
    /\ Len(all_items) > 2 * chunk_size
    /\ C26_ItemsUpTo(1) \subseteq BagToSet(table)
    /\ all_items[Len(all_items)] \notin BagToSet(table)
    /\ Entries(checkpoint) = {}

----------------------------------------------------------------------------
\* extract(config, progress) of extract/extract_sales.py, and the step of
\* run_extract (migrate.py) that calls it.  The extractor connects, counts,
\* runs the main query, reads the lines of every sale, and only then writes
\* the canonical file data/extracted/sales.json; one try/except encloses all
\* of it.

MaxExtracts == 2    \* calls of extract() in one behaviour

CutShortFile == [st |-> "corrupt", n |-> 0]

\* The exception raised at line 160.
Raise(where) == [class |-> "Exception", at |-> where]

NoException == [class |-> "none", at |-> "none"]

Extractors ==
    {[pc |-> "ready", rows |-> r, file |-> f, found |-> f, sales |-> 0,
      raised |-> NoException, calls |-> 0] :
        r \in 0..MaxSales, f \in {NoFile} \cup {DataFile(n) : n \in 0..MaxSales}}

ExtractInit ==
    /\ source = [e \in EntitySet |-> 0]
    /\ config \in {[continueOnError |-> FALSE, checkpointEnabled |-> b] : b \in BOOLEAN}
    /\ OrchestratorAtRest
    /\ LoaderIdle
    /\ TransformerIdle
    /\ FieldsIdle
    /\ extractor \in Extractors

ExtractFrame ==
    UNCHANGED <<source, config, args, dry_run, completed_phases, frame, pc, todo, phase,
                ents, count, extracted, transformed, target, validation, runs, trace,
                succeeded, start, atStep, interruptedAt, prev, dataVars>>

\* run_extract calls extract(): sales = [], then the try block is entered.
extract ==
    /\ extractor.pc \in {"ready", "returned", "saved", "raised"}
    /\ extractor.calls < MaxExtracts
    /\ extractor' = [extractor EXCEPT !.pc = "connect", !.found = extractor.file,
                                      !.sales = 0, !.raised = NoException,
                                      !.calls = @ + 1]
    /\ UNCHANGED <<checkpoint, checkpoint_file>>
    /\ ExtractFrame

\* pymysql.connect, the COUNT query and the main query, one after the other.
extract_statement ==
    /\ extractor.pc \in {"connect", "count", "query"}
    /\ extractor' = [extractor EXCEPT !.pc = CASE @ = "connect" -> "count"
                                              [] @ = "count" -> "query"
                                              [] @ = "query" -> "lines"]
    /\ UNCHANGED <<checkpoint, checkpoint_file>>
    /\ ExtractFrame

\* One sale row: its lines are queried and the sale is appended.
extract_sale ==
    /\ extractor.pc = "lines"
    /\ extractor.sales < extractor.rows
    /\ extractor' = [extractor EXCEPT !.sales = @ + 1]
    /\ UNCHANGED <<checkpoint, checkpoint_file>>
    /\ ExtractFrame

\* The connection or a query raises: the handler of line 159 raises
\* Exception("Failed to extract sales: ...").
extract_raises ==
    /\ \/ extractor.pc \in {"connect", "count", "query"}
       \/ extractor.pc = "lines" /\ extractor.sales < extractor.rows
    /\ extractor' = [extractor EXCEPT !.pc = "raised", !.raised = Raise(extractor.pc)]
    /\ UNCHANGED <<checkpoint, checkpoint_file>>
    /\ ExtractFrame

\* Lines 151-157: the file is opened for writing and the sales are dumped;
\* return len(sales).
extract_write ==
    /\ extractor.pc = "lines"
    /\ extractor.sales = extractor.rows
    /\ extractor' = [extractor EXCEPT !.pc = "returned", !.file = DataFile(extractor.sales)]
    /\ UNCHANGED <<checkpoint, checkpoint_file>>
    /\ ExtractFrame

\* The dump raises after the file was opened: the file is cut short.
extract_write_raises ==
    /\ extractor.pc = "lines"
    /\ extractor.sales = extractor.rows
    /\ extractor' = [extractor EXCEPT !.pc = "raised", !.file = CutShortFile,
                                      !.raised = Raise("write")]
    /\ UNCHANGED <<checkpoint, checkpoint_file>>
    /\ ExtractFrame

\* run_extract: count = extract_sales.extract(...) has returned, and
\* self.save_checkpoint('extract', ent, count) follows.  An exception of
\* extract() leaves run_extract at the call, which no handler encloses.
save_extract_checkpoint ==
    /\ extractor.pc = "returned"
    /\ extractor' = [extractor EXCEPT !.pc = "saved"]
    /\ checkpoint' = IF config.checkpointEnabled
                     THEN Merged(checkpoint, "extract", "sales", extractor.sales)
                     ELSE checkpoint
    /\ checkpoint_file' = IF config.checkpointEnabled
                          THEN WrittenCheckpointFile(checkpoint')
                          ELSE checkpoint_file
    /\ ExtractFrame

ExtractNext ==
    \/ extract
    \/ extract_statement
    \/ extract_sale
    \/ extract_raises
    \/ extract_write
    \/ extract_write_raises
    \/ save_extract_checkpoint

SpecExtract == ExtractInit /\ [][ExtractNext]_vars

----------------------------------------------------------------------------
\* C27: a connection or query failure aborts the extraction: it surfaces to
\* the orchestrator as an ExtractionError, the canonical file is left exactly
\* as it was before the step (no partial output), and no checkpoint entry
\* (extract, sales) is recorded for the step.
C27_SourceFailed ==
    extractor.pc = "raised" /\ extractor.raised.at \in {"connect", "count", "query", "lines"}

C27_FileUntouched == C27_SourceFailed => extractor.file = extractor.found

C27_NothingRecorded ==
    C27_SourceFailed /\ extractor.calls = 1 =>
        /\ <<"extract", "sales">> \notin Entries(checkpoint)
        /\ checkpoint_file = AbsentCheckpointFile

C27_FailureAbortsAsExtractionError ==
    /\ C27_SourceFailed => extractor.raised.class = "ExtractionError"
    /\ C27_FileUntouched
    /\ C27_NothingRecorded

----------------------------------------------------------------------------
\* The checkpoint store on its own: MigrationOrchestrator.__init__,
\* load_checkpoint and save_checkpoint of migrate.py, called with any phase,
\* entity and progress.  An entry is {'progress': ..., 'timestamp': ...}.

MaxTime == 2        \* distinct values of datetime.utcnow()

SavedPhases == {"extract", "transform"}
SavedEntities == {"buyers", "sales"}

Entry(progress, ts) == [progress |-> progress, timestamp |-> ts]

\* The checkpoint file an earlier process may have left.
EarlierFiles ==
    {AbsentCheckpointFile,
     WrittenCheckpointFile(Merged(EmptyCheckpoint, "extract", "buyers", Entry(MaxRows, 1)))}

CheckpointInit ==
    /\ source = [e \in EntitySet |-> 0]
    /\ config \in {[continueOnError |-> FALSE, checkpointEnabled |-> b] : b \in BOOLEAN}
    /\ args = [cmd |-> "none", phase |-> "none", entity |-> "none"]
    /\ dry_run = FALSE
    /\ checkpoint_file \in EarlierFiles
    /\ checkpoint = load_checkpoint
    /\ completed_phases = {}
    /\ frame = "none"
    /\ pc = "main"
    /\ todo = <<>>
    /\ phase = "none"
    /\ ents = <<>>
    /\ count = 0
    /\ extracted = [e \in EntitySet |-> NoFile]
    /\ transformed = [e \in EntitySet |-> NoFile]
    /\ target = [e \in EntitySet |-> {}]
    /\ validation = "none"
    /\ runs = 0
    /\ trace = <<>>
    /\ succeeded = {}
    /\ start = [checkpoint |-> EmptyCheckpoint, file |-> AbsentCheckpointFile,
                target |-> [e \in EntitySet |-> {}]]
    /\ atStep = AbsentCheckpointFile
    /\ interruptedAt = "none"
    /\ prev = NoFailure
    /\ ExtractorIdle
    /\ LoaderIdle
    /\ TransformerIdle
    /\ FieldsIdle

CheckpointFrame ==
    UNCHANGED <<source, config, args, dry_run, completed_phases, frame, todo, extracted,
                transformed, target, validation, runs, trace, succeeded, start, atStep,
                interruptedAt, prev, extractor, dataVars>>

\* save_checkpoint(p, e, progress), lines 72-85, as one step.
save_checkpoint(p, e, progress) ==
    /\ pc' = "saved"
    /\ phase' = p
    /\ ents' = <<e>>
    /\ count' = progress
    /\ IF ~config.checkpointEnabled
       THEN UNCHANGED <<checkpoint, checkpoint_file>>
       ELSE \E ts \in 1..MaxTime :
               /\ checkpoint' = Merged(checkpoint, p, e, Entry(progress, ts))
               /\ checkpoint_file' = WrittenCheckpointFile(checkpoint')
    /\ CheckpointFrame

\* A new process: __init__, line 37, self.checkpoint = self.load_checkpoint()
new_orchestrator ==
    /\ pc = "saved"
    /\ pc' = "main"
    /\ checkpoint' = load_checkpoint
    /\ UNCHANGED <<checkpoint_file, phase, ents, count>>
    /\ CheckpointFrame

CheckpointNext ==
    \/ \E p \in SavedPhases, e \in SavedEntities, progress \in 0..MaxRows :
          save_checkpoint(p, e, progress)
    \/ new_orchestrator

SpecCheckpoint == CheckpointInit /\ [][CheckpointNext]_vars

----------------------------------------------------------------------------
\* C28: save_checkpoint(phase, entity, progress) sets exactly the entry
\* (phase, entity), to the given progress with a timestamp, and leaves every
\* other entry as it was; it persists the merged structure, so that a later
\* load_checkpoint returns it.  With checkpointing disabled it changes
\* neither the in-memory nor the persisted checkpoint, and load_checkpoint
\* returns the empty structure.
C28_AfterSave ==
    pc = "saved" =>
        IF config.checkpointEnabled
        THEN /\ <<phase, ent>> \in Entries(checkpoint)
             /\ checkpoint[phase][ent].progress = count
             /\ checkpoint[phase][ent].timestamp \in 1..MaxTime
             /\ checkpoint_file = WrittenCheckpointFile(checkpoint)
             /\ load_checkpoint = checkpoint
        ELSE /\ checkpoint = EmptyCheckpoint
             /\ load_checkpoint = EmptyCheckpoint

C28_Save ==
    pc' = "saved" =>
        IF config.checkpointEnabled
        THEN /\ Entries(checkpoint') = Entries(checkpoint) \cup {<<phase', Head(ents')>>}
             /\ DOMAIN checkpoint' = DOMAIN checkpoint \cup {phase'}
             /\ \A x \in Entries(checkpoint) :
                   x # <<phase', Head(ents')>> =>
                       checkpoint'[x[1]][x[2]] = checkpoint[x[1]][x[2]]
        ELSE UNCHANGED <<checkpoint, checkpoint_file>>

C28_SaveSetsOneEntryAndPersists == []C28_AfterSave /\ [][C28_Save]_vars

\* An entry of a phase that holds another entry is overwritten with a new
\* progress, next to an entry of another phase.
C28_Witness ==
    /\ pc = "saved"
    /\ config.checkpointEnabled
    /\ Entries(checkpoint) = {<<"extract", "buyers">>, <<"extract", "sales">>,
                              <<"transform", "sales">>}
    /\ <<phase, ent>> = <<"extract", "buyers">>
    /\ checkpoint["extract"]["buyers"] = Entry(0, 2)
    /\ checkpoint_file = WrittenCheckpointFile(checkpoint)

----------------------------------------------------------------------------
\* C29: every item the pipeline's transformers produce from a well-formed
\* canonical record (all source fields present, recognized status,
\* non-negative amounts) is accepted by the validator with zero errors, so
\* that a full run over well-formed source data passes validation.
C29_WellFormedSource == records = [e \in EntitySet |-> <<Complete("pipeline", e)>>]

C29_TransformedItemsAreValid ==
    impl = "pipeline" /\ C29_WellFormedSource /\ result # Unvalidated =>
        /\ result.errors = <<>>
        /\ result.outcome = "valid"

----------------------------------------------------------------------------
\* C30: after a run_full() that fails, the checkpoint contains only entries
\* for steps that succeeded during that run: entries left in the persisted
\* checkpoint by an earlier, unfinished run are not carried into the new run,
\* so that a following resume() skips no phase on the strength of a step
\* completed only in the earlier run.
C30_FailedFullRun == args.cmd = "full" /\ frame = "run_full" /\ pc = "failed"

C30_OnlyStepsOfThisRun ==
    C30_FailedFullRun =>
        /\ Entries(checkpoint) \subseteq StepsCompleted
        /\ Entries(load_checkpoint) \subseteq StepsCompleted

====
